---------------------------- MODULE Spec2Model ----------------------------
(***************************************************************************)
(* Execution pipeline of the portfolio-rebalancing engine: the order       *)
(* planner and trade executor (services/alpaca_trading_service.py), the    *)
(* failure handler (services/error_handler_service.py), the per-symphony   *)
(* task (tasks/algorithm_execution.py), the evaluator (its entry point,    *)
(* weighting, allocations and conditions, algorithms/executor.py), the     *)
(* daily scheduler (tasks/symphony_scheduler.py), the worker pool          *)
(* (celery_app.py), the validator with the symphonies table                *)
(* (parsers/validator.py, services/symphony_service.py), the selection of  *)
(* symphonies (services/rebalancing_service.py), the market data service   *)
(* with its cache and the providers' rate limiters                         *)
(* (services/market_data_service.py, services/data_cache_service.py,       *)
(* integrations/), the position reconciliation (tasks/position_tasks.py),  *)
(* the recovery and liquidation policy (tasks/error_tasks.py) and the      *)
(* symphony parser (parsers/symphony_parser.py, parsers/schemas.py).       *)
(*                                                                         *)
(* Decimal numbers are integers here.  Dollar amounts and share counts are *)
(* whole numbers; a target allocation is the number the code holds (a      *)
(* percentage for the trade service, a fraction in units of 1/AllocScale   *)
(* for the evaluator).  Divisions are carried out on scaled integers so    *)
(* that no rounding is introduced by the model.                            *)
(***************************************************************************)
EXTENDS Integers, Sequences, FiniteSets, TLC

(***************************************************************************)
(* Bounds of the model and constants of the program.                       *)
(***************************************************************************)
\* polling iterations that fit in _wait_for_order_fills' timeout
MaxPolls == 2
\* "Skip small differences (less than $10)"
MinOrderDollars == 10
\* price assumed for a symbol without a position
DefaultPrice == 1
\* target_pct / 100
PercentScale == 100
\* last clock value of the model
MaxClock == 61
\* crontab(hour=15, minute=50): the beat entry that starts the scheduler
WindowStart == 50
\* time(16, 0): the hard deadline of the execution window
Deadline == 60

Symbols == {"AAA", "BBB"}
SymbolSeq == <<"AAA", "BBB">>
\* the user's symphonies
Syms == {1, 2}
PriceOf == [s \in Symbols |-> 10]
QtyChoices == {0, 5, 10}
CashChoices == {0, 100}

Abs(x) == IF x < 0 THEN -x ELSE x
\* Python's int() on a quotient: truncation toward zero
TruncDiv(a, b) == IF a >= 0 THEN a \div b ELSE -((-a) \div b)

RECURSIVE SumSeq(_)
SumSeq(s) == IF s = << >> THEN 0 ELSE Head(s) + SumSeq(Tail(s))

SeqToSet(s) == {s[i] : i \in DOMAIN s}


(***************************************************************************)
(* State.                                                                  *)
(***************************************************************************)
VARIABLES
    pc,            \* position of the handler that is running
    hasToken,      \* user.alpaca_access_token is set
    cash,          \* cash of the broker account
    positions,     \* Position rows: [Syms \X Symbols -> quantity]
    symStatus,     \* Symphony.status of each symphony
    targets,       \* target_allocations handed to the trade service
    account,       \* account snapshot the plan was built from
    plan,          \* orders computed by the planner, in dict order
    idx,           \* index of the next order of the plan to submit
    brokerOrders,  \* orders the broker accepted, in submission order
    trades,        \* Trade rows written by record_trade
    waitSet,       \* trades handed to _wait_for_order_fills
    polls,         \* iterations of the polling loop so far
    liqCaller,     \* which handler started the liquidation
    liqQueue,      \* positions close_all_positions still has to close
    lastError,     \* Symphony.last_error of each symphony
    runSym,        \* the symphony the running handler works on
    \* the per-symphony task (tasks/algorithm_execution.py)
    rebalancing,   \* algorithm['rebalancing'] of the symphony
    execDate,      \* execution_date: [weekday, day, month]
    steps,         \* algorithm['steps'] of the symphony
    evalResult,    \* ExecutionResult: [target_allocations, errors]
    decision,      \* outcome of _should_rebalance: "none", "yes", "no"
    plannerCalls,  \* calls of the order planner in this run
    taskResult,    \* the task's result: [success, errors]
    failureQueue,  \* failure handlers queued with .delay()
    lastExecuted,  \* symphony.last_executed_at was written by this run
    \* handle_critical_error (services/error_handler_service.py)
    critical,      \* [active, queue, events]
    \* the daily scheduler (tasks/symphony_scheduler.py)
    sched,         \* local state of execute_daily_symphonies
    now,           \* wall clock, in minutes after 15:00 exchange time
    marketOpen,    \* what is_market_open() answers
    \* runs of execute_symphony_algorithm on the workers
    runs,          \* [origin, symphony] -> state of that run
    \* one evaluation by AlgorithmExecutor (algorithms/executor.py)
    alloc,         \* [pc, st, cfg, result]
    \* one condition evaluated by the executor
    cond,          \* [pc, condition, asset_data_map, result]
    \* the symphonies table and the validator (services/symphony_service.py)
    registry,      \* [symphonies, validation]
    \* the selection of a symphony (services/rebalancing_service.py)
    elig, \* [pc, symphony, today, positions, eligible, should_rebalance]
    \* the market data service and its cache (services/market_data_service.py)
    md, \* [pc, clock, cache, fetched, lastSet, last]
    \* the rate limiter of one market data client (integrations/*_client.py)
    limiter, \* [pc, provider, now, pauses, call_times, sleeping, sent]
    \* the position reconciliation of one user (tasks/position_tasks.py)
    rec, \* [pc, broker, rows]
    \* the error policy applied to one symphony (services/error_handler_service.py)
    errs, \* [pc, plan, orders, liquidated, raised, verdict, cash_buffer, handled, retries, is_active]
    \* one symphony after an evaluation error (tasks/algorithm_execution.py)
    review, \* [pc, symphony, failed, executed_again, handler_queued, retry_queued, failures, liquidations]
    \* recovery from the market data failures of one symphony (tasks/error_tasks.py)
    recov, \* [pc, clock, due, records, queued]
    \* the batches drawn by the daily scheduler (tasks/symphony_scheduler.py)
    batching, \* [pc, active, eligible, next, dispatched]
    \* one ranking step of the evaluator (algorithms/executor.py)
    ranking, \* [pc, asset_data_map, step, ranked_assets]
    \* the plan made for one evaluation (services/alpaca_trading_service.py)
    planner, \* [pc, current_positions, total_equity, target_allocations, orders, submitted]
    \* the validation of one Filter step (parsers/schemas.py, parsers/validator.py)
    filter, \* [pc, select_n, children, outcome]
    \* the symphony parser
    parser, \* the parser: input, typed step, its JSON, the step parsed again
    \* one order, its fill and the reconciliation
    fills  \* [pc, before, broker, order, trade, polls, reconciles, rows]

taskVars == <<rebalancing, execDate, steps, evalResult, decision, plannerCalls,
              taskResult, failureQueue, lastExecuted>>
critVars == <<critical>>
schedVars == <<sched, now, marketOpen>>
\* state of the components specified further down
sideVars == <<runs, alloc, cond, registry, elig, md, limiter, rec, errs, review, recov, batching, ranking, planner, filter, parser, fills>>
outsideTrade == <<runSym, taskVars, critVars, schedVars, sideVars>>

tradeVars == <<pc, hasToken, cash, positions, symStatus, targets, account,
               plan, idx, brokerOrders, trades, waitSet, polls, liqCaller,
               liqQueue, lastError>>

(***************************************************************************)
(* Broker account as the client reports it.                                *)
(***************************************************************************)
HeldQty(pos, sym) == SumSeq([i \in 1..2 |-> pos[<<i, sym>>]])

\* _get_current_positions: one entry per symbol the account holds
RECURSIVE GetCurrentPositionsFrom(_, _)
GetCurrentPositionsFrom(pos, syms) ==
    IF syms = << >> THEN << >>
    ELSE LET sym == Head(syms)
             q == HeldQty(pos, sym)
             rest == GetCurrentPositionsFrom(pos, Tail(syms))
         IN IF q = 0 THEN rest
            ELSE <<[symbol |-> sym, quantity |-> q,
                    current_price |-> PriceOf[sym],
                    market_value |-> q * PriceOf[sym]]>> \o rest

GetCurrentPositions(pos) == GetCurrentPositionsFrom(pos, SymbolSeq)

MarketValue(cur) == SumSeq([i \in DOMAIN cur |-> cur[i].market_value])

\* get_account: equity and buying power of a cash account
GetAccount(c, pos) ==
    [equity |-> c + MarketValue(GetCurrentPositions(pos)),
     buying_power |-> c]

(***************************************************************************)
(* Order planner.                                                          *)
(***************************************************************************)
HasPosition(cur, sym) == \E i \in DOMAIN cur : cur[i].symbol = sym
PositionOf(cur, sym) == cur[CHOOSE i \in DOMAIN cur : cur[i].symbol = sym]

\* current_positions.get(symbol, {}).get("market_value", Decimal("0"))
CurrentValue(cur, sym) ==
    IF HasPosition(cur, sym) THEN PositionOf(cur, sym).market_value ELSE 0

\* current_positions.get(symbol, {}).get("current_price", Decimal("1"))
CurrentPrice(cur, sym) ==
    IF HasPosition(cur, sym) THEN PositionOf(cur, sym).current_price
    ELSE DefaultPrice

\* one pass of the loop over target_allocations; quantity 0 when no order
\* is stored.  value_diff is held multiplied by scale.
TargetOrder(equity, cur, t, scale) ==
    LET diff == equity * t.pct - CurrentValue(cur, t.symbol) * scale
        price == CurrentPrice(cur, t.symbol)
        quantity == IF Abs(diff) < MinOrderDollars * scale THEN 0
                    ELSE TruncDiv(diff, price * scale)
    IN [symbol |-> t.symbol, quantity |-> quantity,
        estimated_price |-> price]

\* one pass of the loop over current_positions ("need to be closed")
CloseOrder(p) ==
    [symbol |-> p.symbol, quantity |-> -p.quantity,
     estimated_price |-> p.current_price]

TargetSymbols(tgt) == {tgt[i].symbol : i \in DOMAIN tgt}

PlanOrders(equity, cur, tgt, scale) ==
    SelectSeq([i \in DOMAIN tgt |-> TargetOrder(equity, cur, tgt[i], scale)],
              LAMBDA o : o.quantity # 0)
    \o
    [i \in DOMAIN SelectSeq(cur, LAMBDA p : p.symbol \notin TargetSymbols(tgt)
                                            /\ p.quantity > 0) |->
        CloseOrder(SelectSeq(cur, LAMBDA p : p.symbol \notin TargetSymbols(tgt)
                                             /\ p.quantity > 0)[i])]

\* _calculate_rebalancing_orders: targets are percentages
CalculateRebalancingOrders(equity, cur, tgt) ==
    PlanOrders(equity, cur, tgt, PercentScale)

IsBuy(o) == o.quantity > 0
IsSell(o) == o.quantity < 0
Side(o) == IF o.quantity > 0 THEN "buy" ELSE "sell"

\* dollar value of the buy orders of a plan
BuyValue(p) ==
    SumSeq([i \in DOMAIN p |->
               IF IsBuy(p[i]) THEN p[i].quantity * p[i].estimated_price ELSE 0])


(***************************************************************************)
(* Trade executor: execute_symphony_trades and _wait_for_order_fills.      *)
(***************************************************************************)
OpenStatuses == {"new", "partially_filled"}
ClosedStatuses == {"filled", "cancelled", "rejected", "expired"}

\* what the broker may report for an order that it reported as st before
BrokerNext(st) ==
    IF st = "new" THEN {"new", "partially_filled", "filled", "rejected"}
    ELSE IF st = "partially_filled" THEN {"partially_filled", "filled"}
    ELSE {st}

\* every symbol is held by at most one of the user's symphonies
PositionChoices(qtys) ==
    {p \in [Syms \X Symbols -> qtys] :
        \A sym \in Symbols : p[<<1, sym>>] = 0 \/ p[<<2, sym>>] = 0}

TargetChoices ==
    {<< >>}
    \cup {<<[symbol |-> a, pct |-> w]>> : a \in Symbols, w \in {50, 100}}
    \cup {<<[symbol |-> ab[1], pct |-> 50], [symbol |-> ab[2], pct |-> 50]>> :
             ab \in {x \in Symbols \X Symbols : x[1] # x[2]}}

NoAccount == [equity |-> 0, buying_power |-> 0]

NoResult == [target_allocations |-> << >>, errors |-> << >>]

\* where runs of the task are dispatched from
Origins == {"scheduled", "per_user", "retry"}

\* no run has been dispatched
RunsIdle == runs = [r \in Origins \X Syms |-> "none"]

\* no evaluation is being followed
AllocIdle == alloc = [pc |-> "idle"]

\* no condition is being evaluated
CondIdle == cond = [pc |-> "idle"]

\* the symphonies table is not followed
RegistryIdle == registry = [pc |-> "idle"]

EligIdle == elig = [pc |-> "idle"]

MdIdle == md = [pc |-> "idle"]

LimiterIdle == limiter = [pc |-> "idle"]

RecIdle == rec = [pc |-> "idle"]

ErrsIdle == errs = [pc |-> "idle"]

ReviewIdle == review = [pc |-> "idle"]

RecovIdle == recov = [pc |-> "idle"]

BatchingIdle == batching = [pc |-> "idle"]

RankingIdle == ranking = [pc |-> "idle"]

PlannerIdle == planner = [pc |-> "idle"]

FilterIdle == filter = [pc |-> "idle"]

ParserIdle == parser = [pc |-> "idle"]

FillsIdle == fills = [pc |-> "idle"]

SideIdle == RunsIdle /\ AllocIdle /\ CondIdle /\ RegistryIdle /\ EligIdle /\ MdIdle /\ LimiterIdle /\ RecIdle /\ ErrsIdle /\ ReviewIdle /\ RecovIdle /\ BatchingIdle /\ RankingIdle /\ PlannerIdle /\ FilterIdle /\ ParserIdle /\ FillsIdle

\* the per-symphony task is not running
TaskIdle ==
    /\ rebalancing = [type |-> "time_based", frequency |-> "daily", threshold |-> 0]
    /\ execDate = [weekday |-> 0, day |-> 1, month |-> 1]
    /\ steps = << >>
    /\ evalResult = NoResult
    /\ decision = "none"
    /\ plannerCalls = 0
    /\ taskResult = [success |-> FALSE, errors |-> << >>]
    /\ failureQueue = {}
    /\ lastExecuted = FALSE

\* handle_critical_error is not running
CriticalIdle == critical = [active |-> FALSE, queue |-> << >>, events |-> 0]

\* execute_daily_symphonies is not running
NoSched == [active |-> << >>, checked |-> 0, eligible |-> << >>, next |-> 0,
            dispatched |-> << >>, collected |-> 0, exceeded |-> FALSE,
            executed |-> 0, failed |-> 0]

SchedIdle == sched = NoSched /\ now = 0 /\ marketOpen = FALSE

TradeInit ==
    /\ pc = "trade_start"
    /\ hasToken \in BOOLEAN
    /\ cash \in CashChoices
    /\ positions \in PositionChoices({0, 10})
    /\ symStatus = [s \in Syms |-> "active"]
    /\ targets \in TargetChoices
    /\ account = NoAccount
    /\ plan = << >>
    /\ idx = 1
    /\ brokerOrders = << >>
    /\ trades = << >>
    /\ waitSet = {}
    /\ polls = 0
    /\ liqCaller = "none"
    /\ liqQueue = << >>
    /\ lastError = [s \in Syms |-> "none"]
    /\ runSym = 1
    /\ TaskIdle
    /\ CriticalIdle
    /\ sched = NoSched
    /\ marketOpen = FALSE
    /\ now = WindowStart
    /\ SideIdle

\* the orders that are in flight at the broker
InFlight(orders) == {i \in DOMAIN orders : orders[i].status \in OpenStatuses}

NewOrder(sym, side, qty, kind, orders) ==
    [symbol |-> sym, side |-> side, qty |-> qty, status |-> "new",
     kind |-> kind, inflight |-> InFlight(orders), at |-> now]

\* record_trade
NewTrade(symphony, sym, side, qty, status, order, kind) ==
    [symphony |-> symphony, symbol |-> sym, side |-> side, quantity |-> qty,
     status |-> status, order |-> order, kind |-> kind]

PendingTrades(ts, kind) ==
    {t \in DOMAIN ts : ts[t].kind = kind /\ ts[t].status = "pending"}

\* lines 77-93: client, account, positions, plan
TradeStart ==
    /\ pc = "trade_start"
    /\ hasToken
    /\ account' = GetAccount(cash, positions)
    /\ plan' = CalculateRebalancingOrders(account'.equity,
                                          GetCurrentPositions(positions), targets)
    /\ idx' = 1
    /\ pc' = "trade_submit"
    /\ UNCHANGED <<hasToken, cash, positions, symStatus, targets, brokerOrders,
                   trades, waitSet, polls, liqCaller, liqQueue, lastError>>
    /\ UNCHANGED outsideTrade

\* _get_alpaca_client raises without a token; a broker call may fail
TradeStartRaise ==
    /\ pc = "trade_start"
    /\ pc' = "symphony_error"
    /\ UNCHANGED <<hasToken, cash, positions, symStatus, targets, account, plan,
                   idx, brokerOrders, trades, waitSet, polls, liqCaller,
                   liqQueue, lastError>>
    /\ UNCHANGED outsideTrade

\* what the try block around submit_order and record_trade can do: both
\* succeed; submit_order raises; the broker accepts the order and the commit
\* of record_trade raises.  The except clause records a failed trade that
\* carries no order id in the last two cases.
SubmitOutcomes == {"recorded", "submit_raises", "record_raises"}

\* the clock is followed from the last minute of the window on; all earlier
\* instants are alike to the trade service, which never reads the clock
TradeTick ==
    /\ pc \in {"trade_start", "trade_submit", "trade_wait", "symphony_error",
               "liq_submit", "liq_wait"}
    /\ now >= Deadline - 1
    /\ now < MaxClock
    /\ now' = now + 1
    /\ UNCHANGED <<tradeVars, runSym, taskVars, critVars, sched, marketOpen>>
    /\ UNCHANGED sideVars

\* lines 96-140: one pass of the loop over the plan
TradeSubmit ==
    /\ pc = "trade_submit"
    /\ idx <= Len(plan)
    /\ LET o == plan[idx] IN
       \E outcome \in SubmitOutcomes :
          /\ brokerOrders' =
                IF outcome = "submit_raises" THEN brokerOrders
                ELSE Append(brokerOrders,
                            NewOrder(o.symbol, Side(o), Abs(o.quantity),
                                     "rebalance", brokerOrders))
          /\ trades' = Append(trades,
                IF outcome = "recorded"
                THEN NewTrade(runSym, o.symbol, Side(o), Abs(o.quantity),
                              "pending", Len(brokerOrders) + 1, "rebalance")
                ELSE NewTrade(runSym, o.symbol, Side(o), Abs(o.quantity),
                              "failed", 0, "rebalance"))
    /\ idx' = idx + 1
    /\ UNCHANGED <<pc, hasToken, cash, positions, symStatus, targets, account,
                   plan, waitSet, polls, liqCaller, liqQueue, lastError>>
    /\ UNCHANGED outsideTrade

\* line 143: hand the recorded trades to _wait_for_order_fills
TradeSubmitDone ==
    /\ pc = "trade_submit"
    /\ idx > Len(plan)
    /\ waitSet' = PendingTrades(trades, "rebalance")
    /\ polls' = 0
    /\ pc' = "trade_wait"
    /\ UNCHANGED <<hasToken, cash, positions, symStatus, targets, account, plan,
                   idx, brokerOrders, trades, liqCaller, liqQueue, lastError>>
    /\ UNCHANGED outsideTrade

Waiting == pc \in {"trade_wait", "liq_wait"}
AfterWait == IF pc = "trade_wait" THEN "done" ELSE "liq_done"

\* orders that an iteration of the polling loop asks the broker about
Polled == {t \in waitSet : trades[t].status # "executed"}

SignedQty(t) == IF t.side = "buy" THEN t.quantity ELSE -t.quantity

\* trade status after the broker reported st for its order
TradeStatusAfter(old, st) ==
    IF old = "executed" THEN old
    ELSE IF st = "filled" THEN "executed"
    ELSE IF st \in {"cancelled", "rejected", "expired"} THEN "failed"
    ELSE old

\* an all_filled that only a filled order leaves true
AllFilledOnly(ts, orders, polled) ==
    \A t \in polled : orders[ts[t].order].status = "filled"
\* all_filled at the end of an iteration
AllFilled(ts, orders, polled) ==
    \A t \in polled :
        orders[ts[t].order].status \in {"filled", "cancelled", "rejected", "expired"}

\* create_or_update_position for every trade the iteration saw filled
PositionsAfterFills(pos, ts, orders, polled) ==
    [k \in DOMAIN pos |->
        LET hit == {t \in polled : /\ orders[ts[t].order].status = "filled"
                                   /\ <<ts[t].symphony, ts[t].symbol>> = k}
        IN IF hit = {} THEN pos[k]
           ELSE pos[k] + SignedQty(ts[CHOOSE t \in hit : TRUE])]

\* lines 253-290: one iteration of the polling loop
WaitPoll ==
    /\ Waiting
    /\ polls < MaxPolls
    /\ \E report \in [DOMAIN brokerOrders ->
                        OpenStatuses \cup ClosedStatuses] :
          /\ \A i \in DOMAIN brokerOrders :
                report[i] \in
                   IF \E t \in Polled : trades[t].order = i
                   THEN BrokerNext(brokerOrders[i].status)
                   ELSE {brokerOrders[i].status}
          /\ brokerOrders' = [i \in DOMAIN brokerOrders |->
                                 [brokerOrders[i] EXCEPT !.status = report[i]]]
    /\ trades' = [t \in DOMAIN trades |->
                    IF t \in Polled
                    THEN [trades[t] EXCEPT !.status =
                            TradeStatusAfter(@, brokerOrders'[trades[t].order].status)]
                    ELSE trades[t]]
    /\ positions' = PositionsAfterFills(positions, trades, brokerOrders', Polled)
    /\ IF AllFilled(trades, brokerOrders', Polled)
       THEN pc' = AfterWait /\ polls' = polls
       ELSE pc' = pc /\ polls' = polls + 1
    /\ UNCHANGED <<hasToken, cash, symStatus, targets, account, plan, idx,
                   waitSet, liqCaller, liqQueue, lastError>>
    /\ UNCHANGED outsideTrade

\* line 253: the timeout has elapsed
WaitTimeout ==
    /\ Waiting
    /\ polls >= MaxPolls
    /\ pc' = AfterWait
    /\ UNCHANGED <<hasToken, cash, positions, symStatus, targets, account, plan,
                   idx, brokerOrders, trades, waitSet, polls, liqCaller,
                   liqQueue, lastError>>
    /\ UNCHANGED outsideTrade

\* line 259: client.get_order raises while the rebalancing orders are polled
TradeWaitRaise ==
    /\ pc = "trade_wait"
    /\ polls < MaxPolls
    /\ Polled # {}
    /\ pc' = "symphony_error"
    /\ UNCHANGED <<hasToken, cash, positions, symStatus, targets, account, plan,
                   idx, brokerOrders, trades, waitSet, polls, liqCaller,
                   liqQueue, lastError>>
    /\ UNCHANGED outsideTrade


(***************************************************************************)
(* Liquidation: close_all_positions, called by handle_symphony_error.      *)
(***************************************************************************)
PositionKeys == <<<<1, "AAA">>, <<1, "BBB">>, <<2, "AAA">>, <<2, "BBB">>>>

\* TradingService.get_positions: the user's rows with a non-zero quantity,
\* of the symphonies in scope
GetPositions(pos, scope) ==
    [i \in DOMAIN SelectSeq(PositionKeys,
                            LAMBDA k : k[1] \in scope /\ pos[k] # 0) |->
        LET k == SelectSeq(PositionKeys,
                           LAMBDA kk : kk[1] \in scope /\ pos[kk] # 0)[i]
        IN [symphony |-> k[1], symbol |-> k[2], quantity |-> pos[k]]]

\* close_all_positions(db, user, symphony_id): the rows of that symphony
SymphonyScope(symphony) == {symphony}

CloseSide(p) == IF p.quantity > 0 THEN "sell" ELSE "buy"

\* a handler whose except clause is missing: the failure reaches the caller
LiquidationFailurePropagates == TRUE
\* handle_symphony_error's except clause: a failed liquidation is logged
\* and the handler returns None instead of raising
LiquidationFailureRaises == FALSE

\* where control goes when handle_symphony_error returns
SymphonyErrorReturnsTo == IF critical.active THEN "critical_loop" ELSE "done"

\* where control goes when the liquidation inside it failed
LiquidationFailureGoesTo ==
    IF LiquidationFailureRaises THEN "done" ELSE SymphonyErrorReturnsTo

\* handle_symphony_error, lines 39-59, up to the first position to close
HandleSymphonyError ==
    /\ pc = "symphony_error"
    /\ symStatus' = [symStatus EXCEPT ![runSym] = "error"]
    /\ IF hasToken
       THEN /\ liqQueue' = GetPositions(positions, SymphonyScope(runSym))
            /\ liqCaller' = "symphony_error"
            /\ lastError' = [lastError EXCEPT ![runSym] = "error"]
            /\ pc' = "liq_submit"
       ELSE /\ liqQueue' = liqQueue
            /\ liqCaller' = liqCaller
            /\ lastError' = [lastError EXCEPT ![runSym] = "liquidation_failed"]
            /\ pc' = LiquidationFailureGoesTo
    /\ UNCHANGED <<hasToken, cash, positions, targets, account, plan, idx,
                   brokerOrders, trades, waitSet, polls>>
    /\ UNCHANGED outsideTrade

\* close_all_positions, lines 376-416: one pass of the loop over positions
LiqSubmit ==
    /\ pc = "liq_submit"
    /\ liqQueue # << >>
    /\ LET p == Head(liqQueue) IN
       \E outcome \in SubmitOutcomes :
          /\ brokerOrders' =
                IF outcome = "submit_raises" THEN brokerOrders
                ELSE Append(brokerOrders,
                            NewOrder(p.symbol, CloseSide(p), Abs(p.quantity),
                                     "liquidation", brokerOrders))
          /\ trades' = Append(trades,
                IF outcome = "recorded"
                THEN NewTrade(p.symphony, p.symbol, CloseSide(p), Abs(p.quantity),
                              "pending", Len(brokerOrders) + 1, "liquidation")
                ELSE NewTrade(p.symphony, p.symbol, CloseSide(p), Abs(p.quantity),
                              "failed", 0, "liquidation"))
    /\ liqQueue' = Tail(liqQueue)
    /\ UNCHANGED <<pc, hasToken, cash, positions, symStatus, targets, account,
                   plan, idx, waitSet, polls, liqCaller, lastError>>
    /\ UNCHANGED outsideTrade

\* the trades list of the running close_all_positions call
LiquidationTrades ==
    {t \in PendingTrades(trades, "liquidation") :
        liqCaller = "symphony_error" => trades[t].symphony = runSym}

\* close_all_positions, lines 418-422: wait for the closing orders, if any
LiqSubmitDone ==
    /\ pc = "liq_submit"
    /\ liqQueue = << >>
    /\ IF LiquidationTrades # {}
       THEN /\ waitSet' = LiquidationTrades
            /\ polls' = 0
            /\ pc' = "liq_wait"
       ELSE /\ waitSet' = waitSet
            /\ polls' = polls
            /\ pc' = "liq_done"
    /\ UNCHANGED <<hasToken, cash, positions, symStatus, targets, account, plan,
                   idx, brokerOrders, trades, liqCaller, liqQueue, lastError>>
    /\ UNCHANGED outsideTrade

\* handle_symphony_error, lines 61-71: the LiquidationEvent is returned
SymphonyErrorReturn ==
    /\ pc = "liq_done"
    /\ liqCaller = "symphony_error"
    /\ pc' = SymphonyErrorReturnsTo
    /\ critical' = [critical EXCEPT !.events = @ + 1]
    /\ UNCHANGED <<hasToken, cash, positions, symStatus, targets, account, plan,
                   idx, brokerOrders, trades, waitSet, polls, liqCaller,
                   liqQueue, lastError, runSym, taskVars>>
    /\ UNCHANGED schedVars
    /\ UNCHANGED sideVars

\* handle_symphony_error, lines 73-81: the liquidation raised
SymphonyErrorLiquidationFailed ==
    /\ pc = "liq_wait"
    /\ liqCaller = "symphony_error"
    /\ polls < MaxPolls
    /\ Polled # {}
    /\ lastError' = [lastError EXCEPT ![runSym] = "liquidation_failed"]
    /\ pc' = LiquidationFailureGoesTo
    /\ UNCHANGED <<hasToken, cash, positions, symStatus, targets, account, plan,
                   idx, brokerOrders, trades, waitSet, polls, liqCaller,
                   liqQueue>>
    /\ UNCHANGED outsideTrade

(***************************************************************************)
(* Evaluator entry point: AlgorithmExecutor.execute_symphony.              *)
(***************************************************************************)
\* Decimal('0.0001'), the precision of an allocation
AllocScale == 10000

\* Decimal.quantize of n/d (d > 0, n >= 0), rounding half to even
RoundHalfEven(n, d) ==
    LET q == n \div d
        r == n % d
    IN IF 2 * r > d THEN q + 1
       ELSE IF 2 * r < d THEN q
       ELSE IF q % 2 = 0 THEN q ELSE q + 1

\* _check_time_based_rebalancing
CheckTimeBasedRebalancing(rb, d) ==
    IF rb.frequency = "daily" THEN TRUE
    ELSE IF rb.frequency = "weekly" THEN d.weekday = 0
    ELSE IF rb.frequency = "monthly" THEN d.day = 1
    ELSE IF rb.frequency = "quarterly"
         THEN d.month \in {1, 4, 7, 10} /\ d.day = 1
    ELSE IF rb.frequency = "yearly" THEN d.month = 1 /\ d.day = 1
    ELSE FALSE

\* target_allocations of the symphony's configuration, in 1/AllocScale
ConfigTargets == [s \in Symbols |-> IF s = "AAA" THEN 6000 ELSE 4000]

\* _check_threshold_based_rebalancing over the current positions, with
\* the target_allocations tgt (a weight in 1/AllocScale for every symbol,
\* 0 for one the configuration does not name)
CheckThresholdBasedRebalancingFor(rb, cur, tgt) ==
    LET total == MarketValue(cur)
    IN IF total = 0 THEN TRUE
       ELSE \E i \in DOMAIN cur :
               Abs(cur[i].market_value * AllocScale
                   - tgt[cur[i].symbol] * total)
                  > rb.threshold * total

\* _check_threshold_based_rebalancing over the user's current positions
CheckThresholdBasedRebalancing(rb, cur) ==
    CheckThresholdBasedRebalancingFor(rb, cur, ConfigTargets)

\* _should_rebalance with the target_allocations tgt
ShouldRebalanceFor(rb, cur, d, tgt) ==
    IF rb.type = "time_based"
    THEN CheckTimeBasedRebalancing(rb, d)
    ELSE IF rb.type = "threshold_based"
    THEN CheckThresholdBasedRebalancingFor(rb, cur, tgt)
    ELSE TRUE

\* _should_rebalance
ShouldRebalance(rb, cur, d) == ShouldRebalanceFor(rb, cur, d, ConfigTargets)

\* _fetch_asset_data: the symbols whose data could be fetched, in the
\* order of the universe, each with weight 0
FetchAssetData(fetchedSyms) ==
    [den |-> 1,
     assets |-> [i \in DOMAIN SelectSeq(SymbolSeq, LAMBDA x : x \in fetchedSyms) |->
                   [symbol |-> SelectSeq(SymbolSeq, LAMBDA x : x \in fetchedSyms)[i],
                    num |-> 0]]]

\* _execute_step for the step types of the model.  A weight is num/den.
\* "weighting_equal": 1/len(asset_data_map), a division by zero when no
\* asset is left.  "screening_bad_indicator": an indicator criterion whose
\* name is malformed, so _calculate_indicators raises for the first asset.
ExecuteStep(step, st) ==
    IF st.raised THEN st
    ELSE IF step = "weighting_equal"
    THEN IF Len(st.assets) = 0 THEN [st EXCEPT !.raised = TRUE]
         ELSE [st EXCEPT !.den = Len(st.assets),
                         !.assets = [i \in DOMAIN st.assets |->
                                        [st.assets[i] EXCEPT !.num = 1]]]
    ELSE IF step = "screening_bad_indicator"
    THEN IF Len(st.assets) = 0 THEN st ELSE [st EXCEPT !.raised = TRUE]
    ELSE st

RECURSIVE ExecuteSteps(_, _)
ExecuteSteps(stepSeq, st) ==
    IF stepSeq = << >> THEN st
    ELSE ExecuteSteps(Tail(stepSeq), ExecuteStep(Head(stepSeq), st))

\* greatest common divisor of two naturals
RECURSIVE GCD(_, _)
GCD(a, b) == IF b = 0 THEN a ELSE GCD(b, a % b)

\* the same Decimal weights num/den, the fractions in lowest common terms
Reduce(st) ==
    LET RECURSIVE G(_, _)
        G(i, acc) == IF i > Len(st.assets) THEN acc
                     ELSE G(i + 1, GCD(acc, st.assets[i].num))
        g == G(1, st.den)
    IN [st EXCEPT !.den = st.den \div g,
                  !.assets = [i \in DOMAIN st.assets |->
                                [st.assets[i] EXCEPT !.num = st.assets[i].num \div g]]]

\* _apply_weight_constraints: every weight clipped to [min_weight,
\* max_weight] (in 1/AllocScale), then divided by the total when the total
\* is positive
ApplyWeightConstraints(st, c) ==
    LET clip(a) == IF a.num * AllocScale < c.min_weight * st.den
                   THEN c.min_weight * st.den
                   ELSE IF a.num * AllocScale > c.max_weight * st.den
                   THEN c.max_weight * st.den
                   ELSE a.num * AllocScale
        clipped == [i \in DOMAIN st.assets |->
                      [st.assets[i] EXCEPT !.num = clip(st.assets[i])]]
        total == SumSeq([i \in DOMAIN clipped |-> clipped[i].num])
    IN Reduce([st EXCEPT !.den = IF total > 0 THEN total ELSE st.den * AllocScale,
                         !.assets = clipped])

\* the allocation configuration when the symphony gives none
DefaultAllocation == [min_allocation |-> 0, max_allocation |-> AllocScale, cash_buffer |-> 0]

\* _generate_allocations.  A weight is num/den; the configuration is in
\* 1/AllocScale; an allocation before rounding is a number of
\* 1/(den * AllocScale).  The result is the sequence of the entries of the
\* returned dict, the 'CASH' entry last.
GenerateAllocationsFor(st, cfg) ==
    LET unit == st.den * AllocScale
        investable == AllocScale - cfg.cash_buffer
        raw(a) == IF a.num * investable < cfg.min_allocation * st.den THEN 0
                  ELSE IF a.num * investable > cfg.max_allocation * st.den
                  THEN cfg.max_allocation * st.den
                  ELSE a.num * investable
        kept == SelectSeq(st.assets, LAMBDA a : raw(a) > 0)
        entries == [i \in DOMAIN kept |-> [symbol |-> kept[i].symbol, amt |-> raw(kept[i])]]
                   \o (IF cfg.cash_buffer > 0
                       THEN <<[symbol |-> "CASH", amt |-> cfg.cash_buffer * st.den]>>
                       ELSE << >>)
        total == SumSeq([i \in DOMAIN entries |-> entries[i].amt])
        renorm == total > 0 /\ Abs(total - unit) * 1000 > unit
    IN [i \in DOMAIN entries |->
          [symbol |-> entries[i].symbol,
           pct |-> IF renorm
                   THEN RoundHalfEven(entries[i].amt * AllocScale, total)
                   ELSE RoundHalfEven(entries[i].amt * AllocScale, unit)]]

\* _generate_allocations with an empty allocation configuration
\* (min_allocation 0, max_allocation 1, cash_buffer 0)
GenerateAllocations(st) == GenerateAllocationsFor(st, DefaultAllocation)

\* a result that keeps the weights computed before the step that raised
ExecuteSymphonyKeepsPartial(shouldRebalance, fetchedSyms, stepSeq) ==
    LET st == ExecuteSteps(stepSeq, [FetchAssetData(fetchedSyms) EXCEPT !.den = 1]
                                     @@ [raised |-> FALSE])
    IN IF ~shouldRebalance
       THEN [target_allocations |-> << >>, errors |-> << >>]
       ELSE IF st.raised
       THEN [target_allocations |-> GenerateAllocations(st),
             errors |-> <<"Execution failed">>]
       ELSE [target_allocations |-> GenerateAllocations(st), errors |-> << >>]

\* execute_symphony, lines 87-123
ExecuteSymphony(shouldRebalance, fetchedSyms, stepSeq) ==
    LET st == ExecuteSteps(stepSeq, [FetchAssetData(fetchedSyms) EXCEPT !.den = 1]
                                     @@ [raised |-> FALSE])
    IN IF ~shouldRebalance
       THEN [target_allocations |-> << >>, errors |-> << >>]
       ELSE IF st.raised
       THEN [target_allocations |-> << >>, errors |-> <<"Execution failed">>]
       ELSE [target_allocations |-> GenerateAllocations(st), errors |-> << >>]

(***************************************************************************)
(* Specification of one call of execute_symphony_trades.                   *)
(***************************************************************************)

(***************************************************************************)
(* The per-symphony task: execute_symphony_algorithm and the failure       *)
(* handlers it queues.                                                     *)
(***************************************************************************)
\* TradingService.calculate_required_trades: the order planner applied to
\* the evaluator's allocations, which are fractions in 1/AllocScale
CalculateRequiredTrades(equity, cur, allocations) ==
    PlanOrders(equity, cur, allocations, AllocScale)

\* liquidate_all_positions(user): the call names the user only
UserScope == Syms

RebalancingChoices ==
    {[type |-> "time_based", frequency |-> "daily", threshold |-> 0],
     [type |-> "time_based", frequency |-> "weekly", threshold |-> 0],
     [type |-> "threshold_based", frequency |-> "daily", threshold |-> 750]}

\* a Monday and a Wednesday
DateChoices ==
    {[weekday |-> 0, day |-> 1, month |-> 1],
     [weekday |-> 2, day |-> 15, month |-> 5]}

StepChoices ==
    {<<"weighting_equal">>, <<"weighting_equal", "screening_bad_indicator">>}

\* symphony 1 may hold AAA and BBB, symphony 2 may hold BBB
TaskPositionChoices ==
    {p \in PositionChoices(QtyChoices) :
        /\ p[<<1, "AAA">>] \in {0, 10}
        /\ p[<<1, "BBB">>] \in {0, 5}
        /\ p[<<2, "AAA">>] = 0
        /\ p[<<2, "BBB">>] \in {0, 10}}

TaskInit ==
    /\ pc = "task_load"
    /\ hasToken \in BOOLEAN
    /\ cash \in CashChoices
    /\ positions \in TaskPositionChoices
    /\ symStatus \in {st \in [Syms -> {"active", "stopped"}] : st[2] = "active"}
    /\ targets = << >>
    /\ account = NoAccount
    /\ plan = << >>
    /\ idx = 1
    /\ brokerOrders = << >>
    /\ trades = << >>
    /\ waitSet = {}
    /\ polls = 0
    /\ liqCaller = "none"
    /\ liqQueue = << >>
    /\ lastError = [s \in Syms |-> "none"]
    /\ runSym = 1
    /\ rebalancing \in RebalancingChoices
    /\ execDate \in DateChoices
    /\ rebalancing.frequency # "weekly" => execDate.weekday = 2
    /\ steps \in StepChoices
    /\ evalResult = NoResult
    /\ decision = "none"
    /\ plannerCalls = 0
    /\ taskResult = [success |-> FALSE, errors |-> << >>]
    /\ failureQueue = {}
    /\ lastExecuted = FALSE
    /\ CriticalIdle
    /\ SchedIdle
    /\ SideIdle

taskLocal == <<hasToken, cash, positions, symStatus, targets, idx, waitSet, polls,
               liqCaller, liqQueue, lastError, runSym, rebalancing, execDate,
               steps, critical>>

\* lines 74-89: the symphony must be active and the user connected
TaskLoad ==
    /\ pc = "task_load"
    /\ pc' = IF symStatus[runSym] = "active" /\ hasToken
             THEN "task_evaluate" ELSE "task_except"
    /\ UNCHANGED <<taskLocal, account, plan, brokerOrders, trades, evalResult,
                   decision, plannerCalls, taskResult, failureQueue, lastExecuted>>
    /\ UNCHANGED schedVars
    /\ UNCHANGED sideVars

\* lines 108-131: current positions, then the evaluator
TaskEvaluate ==
    /\ pc = "task_evaluate"
    /\ \E fetchedSyms \in SUBSET Symbols :
          LET should == ShouldRebalance(rebalancing,
                                        GetCurrentPositions(positions), execDate)
          IN /\ evalResult' = ExecuteSymphony(should, fetchedSyms, steps)
             /\ decision' = IF should THEN "yes" ELSE "no"
    /\ pc' = "task_check"
    /\ UNCHANGED <<taskLocal, account, plan, brokerOrders, trades, plannerCalls,
                   taskResult, failureQueue, lastExecuted>>
    /\ UNCHANGED schedVars
    /\ UNCHANGED sideVars

\* lines 134-143: evaluation errors queue the failure handler and return
TaskCheckErrors ==
    /\ pc = "task_check"
    /\ IF evalResult.errors # << >>
       THEN /\ failureQueue' = failureQueue \cup {"algorithm_failure"}
            /\ taskResult' = [taskResult EXCEPT !.errors = evalResult.errors]
            /\ pc' = "task_returned"
       ELSE /\ failureQueue' = failureQueue
            /\ taskResult' = taskResult
            /\ pc' = "task_plan"
    /\ UNCHANGED <<taskLocal, account, plan, brokerOrders, trades, evalResult,
                   decision, plannerCalls, lastExecuted>>
    /\ UNCHANGED schedVars
    /\ UNCHANGED sideVars

\* lines 151-155: the planner is called with the evaluator's allocations
TaskPlan ==
    /\ pc = "task_plan"
    /\ account' = GetAccount(cash, positions)
    /\ plan' = CalculateRequiredTrades(account'.equity,
                                       GetCurrentPositions(positions),
                                       evalResult.target_allocations)
    /\ plannerCalls' = plannerCalls + 1
    /\ pc' = "task_execute"
    /\ UNCHANGED <<taskLocal, brokerOrders, trades, evalResult, decision,
                   taskResult, failureQueue, lastExecuted>>
    /\ UNCHANGED schedVars
    /\ UNCHANGED sideVars

\* execute_trades: the first k orders of the plan reach the broker
RECURSIVE SubmittedOrders(_, _, _)
SubmittedOrders(p, k, orders) ==
    IF k = 0 THEN orders
    ELSE LET before == SubmittedOrders(p, k - 1, orders)
         IN Append(before, NewOrder(p[k].symbol, Side(p[k]), Abs(p[k].quantity),
                                    "rebalance", before))

\* lines 158-209: execute the required trades and record them
TaskExecuteTrades ==
    /\ pc = "task_execute"
    /\ IF plan = << >>
       THEN UNCHANGED <<brokerOrders, trades, taskResult, failureQueue>>
       ELSE \E k \in 0..Len(plan) :
               /\ brokerOrders' = SubmittedOrders(plan, k, brokerOrders)
               /\ IF k = Len(plan)
                  THEN /\ trades' = trades \o
                            [i \in DOMAIN plan |->
                               NewTrade(runSym, plan[i].symbol, Side(plan[i]),
                                        Abs(plan[i].quantity), "executed",
                                        Len(brokerOrders) + i, "rebalance")]
                       /\ UNCHANGED <<taskResult, failureQueue>>
                  ELSE /\ trades' = trades
                       /\ taskResult' = [taskResult EXCEPT !.errors =
                                           Append(@, "Trade execution error")]
                       /\ failureQueue' = failureQueue \cup {"trade_failure"}
    /\ pc' = "task_finish"
    /\ UNCHANGED <<taskLocal, account, plan, evalResult, decision, plannerCalls,
                   lastExecuted>>
    /\ UNCHANGED schedVars
    /\ UNCHANGED sideVars

\* lines 211-224: timestamp, success flag, notification
TaskFinish ==
    /\ pc = "task_finish"
    /\ lastExecuted' = TRUE
    /\ taskResult' = [taskResult EXCEPT !.success = TRUE]
    /\ pc' = "task_returned"
    /\ UNCHANGED <<taskLocal, account, plan, brokerOrders, trades, evalResult,
                   decision, plannerCalls, failureQueue>>
    /\ UNCHANGED schedVars
    /\ UNCHANGED sideVars

\* lines 226-240: any other exception queues the failure handler
TaskExcept ==
    /\ pc = "task_except"
    /\ taskResult' = [taskResult EXCEPT !.errors = Append(@, "Execution failed")]
    /\ failureQueue' = failureQueue \cup {"algorithm_failure"}
    /\ pc' = "task_returned"
    /\ UNCHANGED <<taskLocal, account, plan, brokerOrders, trades, evalResult,
                   decision, plannerCalls, lastExecuted>>
    /\ UNCHANGED schedVars
    /\ UNCHANGED sideVars

\* handle_algorithm_failure, lines 326-341: liquidate the user's positions
HandleAlgorithmFailure ==
    /\ pc = "task_returned"
    /\ "algorithm_failure" \in failureQueue
    /\ failureQueue' = failureQueue \ {"algorithm_failure"}
    /\ IF hasToken
       THEN /\ liqQueue' = GetPositions(positions, UserScope)
            /\ liqCaller' = "algorithm_failure"
            /\ pc' = "liq_submit"
       ELSE /\ liqQueue' = liqQueue
            /\ liqCaller' = liqCaller
            /\ pc' = "task_returned"
    /\ UNCHANGED <<hasToken, cash, positions, symStatus, targets, account, plan,
                   idx, brokerOrders, trades, waitSet, polls, lastError, runSym,
                   rebalancing, execDate, steps, evalResult, decision,
                   plannerCalls, taskResult, lastExecuted, critical>>
    /\ UNCHANGED schedVars
    /\ UNCHANGED sideVars

\* handle_algorithm_failure, lines 344-372: record, deactivate, alert
AlgorithmFailureDeactivate ==
    /\ pc = "liq_done"
    /\ liqCaller = "algorithm_failure"
    /\ symStatus' = [symStatus EXCEPT ![runSym] = "inactive"]
    /\ lastError' = [lastError EXCEPT ![runSym] = "algorithm_failed"]
    /\ pc' = "task_returned"
    /\ UNCHANGED <<hasToken, cash, positions, targets, account, plan, idx,
                   brokerOrders, trades, waitSet, polls, liqCaller, liqQueue,
                   runSym, taskVars, critical>>
    /\ UNCHANGED schedVars
    /\ UNCHANGED sideVars

\* handle_algorithm_failure, lines 374-379: the liquidation raised
AlgorithmFailureExcept ==
    /\ pc = "liq_wait"
    /\ liqCaller = "algorithm_failure"
    /\ polls < MaxPolls
    /\ Polled # {}
    /\ pc' = "task_returned"
    /\ UNCHANGED <<hasToken, cash, positions, symStatus, targets, account, plan,
                   idx, brokerOrders, trades, waitSet, polls, liqCaller,
                   liqQueue, lastError, runSym, taskVars, critical>>
    /\ UNCHANGED schedVars
    /\ UNCHANGED sideVars

\* handle_trade_failure, lines 404-468, with the empty partial_trades the
\* task passes: nothing to roll back, the failure is recorded
HandleTradeFailure ==
    /\ pc = "task_returned"
    /\ "trade_failure" \in failureQueue
    /\ failureQueue' = failureQueue \ {"trade_failure"}
    /\ UNCHANGED <<pc, hasToken, cash, positions, symStatus, targets, account,
                   plan, idx, brokerOrders, trades, waitSet, polls, liqCaller,
                   liqQueue, lastError, runSym, rebalancing, execDate, steps,
                   evalResult, decision, plannerCalls, taskResult, lastExecuted,
                   critical>>
    /\ UNCHANGED schedVars
    /\ UNCHANGED sideVars

\* the task and every handler it queued have returned
TaskOver == pc = "task_returned" /\ failureQueue = {}

(***************************************************************************)
(* handle_critical_error: liquidate every active symphony of the user.     *)
(***************************************************************************)
\* lines 103-108: the user's symphonies whose status is "active"
ActiveSymphonies(status) ==
    SelectSeq([i \in 1..Cardinality(Syms) |-> i],
              LAMBDA sym : status[sym] = "active")

CriticalInit ==
    /\ pc = "critical_start"
    /\ hasToken \in BOOLEAN
    /\ cash \in CashChoices
    /\ positions \in {p \in PositionChoices(QtyChoices) :
                         p[<<1, "BBB">>] = 0 /\ p[<<2, "AAA">>] = 0}
    /\ symStatus \in [Syms -> {"active", "stopped"}]
    /\ targets = << >>
    /\ account = NoAccount
    /\ plan = << >>
    /\ idx = 1
    /\ brokerOrders = << >>
    /\ trades = << >>
    /\ waitSet = {}
    /\ polls = 0
    /\ liqCaller = "none"
    /\ liqQueue = << >>
    /\ lastError = [s \in Syms |-> "none"]
    /\ runSym = 1
    /\ TaskIdle
    /\ CriticalIdle
    /\ SchedIdle
    /\ SideIdle

\* lines 103-108: the query is evaluated once, before the loop
CriticalStart ==
    /\ pc = "critical_start"
    /\ critical' = [active |-> TRUE, queue |-> ActiveSymphonies(symStatus),
                    events |-> 0]
    /\ pc' = "critical_loop"
    /\ UNCHANGED <<hasToken, cash, positions, symStatus, targets, account, plan,
                   idx, brokerOrders, trades, waitSet, polls, liqCaller,
                   liqQueue, lastError, runSym, taskVars>>
    /\ UNCHANGED schedVars
    /\ UNCHANGED sideVars

\* lines 110-119: the next symphony is handed to handle_symphony_error
CriticalNextSymphony ==
    /\ pc = "critical_loop"
    /\ critical.queue # << >>
    /\ runSym' = Head(critical.queue)
    /\ critical' = [critical EXCEPT !.queue = Tail(@)]
    /\ pc' = "symphony_error"
    /\ UNCHANGED <<hasToken, cash, positions, symStatus, targets, account, plan,
                   idx, brokerOrders, trades, waitSet, polls, liqCaller,
                   liqQueue, lastError, taskVars>>
    /\ UNCHANGED schedVars
    /\ UNCHANGED sideVars

\* line 121: the list of liquidation events is returned
CriticalReturn ==
    /\ pc = "critical_loop"
    /\ critical.queue = << >>
    /\ pc' = "done"
    /\ UNCHANGED <<hasToken, cash, positions, symStatus, targets, account, plan,
                   idx, brokerOrders, trades, waitSet, polls, liqCaller,
                   liqQueue, lastError, runSym, taskVars, critical>>
    /\ UNCHANGED schedVars
    /\ UNCHANGED sideVars

(***************************************************************************)
(* The daily scheduler: execute_daily_symphonies.                          *)
(***************************************************************************)
\* active symphonies of connected users that the query returns
NSymphonies == 9
\* "Max 8 parallel executions"
MaxParallel == 8

Min(a, b) == IF a < b THEN a ELSE b

\* a window check that still lets a batch out at 16:00 sharp
WindowExceededLate(t) == t > Deadline
\* line 146: the window check made before each batch
WindowExceeded(t) == t >= Deadline

\* line 124
BatchSize(eligible) == Min(MaxParallel, Len(eligible))

\* line 142: execution_tasks[i:i + batch_size]
Batch(eligible, i) ==
    SubSeq(eligible, i + 1, Min(i + BatchSize(eligible), Len(eligible)))

SchedOutcomes == {"eligible", "not_eligible", "raises"}
BatchOutcomes == {"succeeded", "failed", "raised"}

\* the beat message expires 600 seconds after 15:50
SchedInit ==
    /\ pc = "sched_start"
    /\ now \in {WindowStart, Deadline - 1, Deadline}
    /\ marketOpen \in BOOLEAN
    /\ sched = NoSched
    /\ hasToken = TRUE
    /\ cash = 0
    /\ positions = [k \in Syms \X Symbols |-> 0]
    /\ symStatus = [s \in Syms |-> "active"]
    /\ targets = << >>
    /\ account = NoAccount
    /\ plan = << >>
    /\ idx = 1
    /\ brokerOrders = << >>
    /\ trades = << >>
    /\ waitSet = {}
    /\ polls = 0
    /\ liqCaller = "none"
    /\ liqQueue = << >>
    /\ lastError = [s \in Syms |-> "none"]
    /\ runSym = 1
    /\ TaskIdle
    /\ CriticalIdle
    /\ SideIdle

schedOther == <<hasToken, cash, positions, symStatus, targets, account, plan,
                idx, brokerOrders, trades, waitSet, polls, liqCaller, liqQueue,
                lastError, runSym, taskVars, critVars>>

SchedRunning ==
    pc \in {"sched_start", "sched_eligibility", "sched_dispatch", "sched_collect"}

\* time passes while the scheduler runs
Tick ==
    /\ SchedRunning
    /\ now < MaxClock
    /\ now' = now + 1
    /\ UNCHANGED <<pc, sched, marketOpen, schedOther>>
    /\ UNCHANGED sideVars

\* lines 64-86: market check and the query for active symphonies
SchedStart ==
    /\ pc = "sched_start"
    /\ IF marketOpen
       THEN /\ sched' = [sched EXCEPT !.active = [i \in 1..NSymphonies |-> i]]
            /\ pc' = "sched_eligibility"
       ELSE /\ sched' = sched
            /\ pc' = "sched_done"
    /\ UNCHANGED <<now, marketOpen, schedOther>>
    /\ UNCHANGED sideVars

\* lines 93-102: one pass of the eligibility loop; nothing catches an
\* exception of the check before the handler of the whole task
SchedCheckEligibility ==
    /\ pc = "sched_eligibility"
    /\ sched.checked < Len(sched.active)
    /\ \E outcome \in SchedOutcomes :
          LET symphony == sched.active[sched.checked + 1] IN
          IF outcome = "raises"
          THEN /\ sched' = sched
               /\ pc' = "sched_raised"
          ELSE /\ sched' = [sched EXCEPT
                               !.checked = @ + 1,
                               !.eligible = IF outcome = "eligible"
                                            THEN Append(@, symphony) ELSE @]
               /\ pc' = pc
    /\ UNCHANGED <<now, marketOpen, schedOther>>
    /\ UNCHANGED sideVars

\* lines 104-135: no eligible symphony ends the run; otherwise the task
\* signatures are built in the order of the eligible list
SchedEligibilityDone ==
    /\ pc = "sched_eligibility"
    /\ sched.checked = Len(sched.active)
    /\ pc' = IF sched.eligible = << >> THEN "sched_done" ELSE "sched_dispatch"
    /\ UNCHANGED <<sched, now, marketOpen, schedOther>>
    /\ UNCHANGED sideVars

\* lines 139-153: one pass of the batch loop
SchedDispatch ==
    /\ pc = "sched_dispatch"
    /\ sched.next < Len(sched.eligible)
    /\ IF WindowExceeded(now)
       THEN /\ sched' = [sched EXCEPT !.exceeded = TRUE]
            /\ pc' = "sched_collect"
       ELSE /\ sched' = [sched EXCEPT
                            !.dispatched = Append(@,
                                [ids |-> Batch(sched.eligible, sched.next),
                                 at |-> now]),
                            !.next = @ + BatchSize(sched.eligible)]
            /\ pc' = pc
    /\ UNCHANGED <<now, marketOpen, schedOther>>
    /\ UNCHANGED sideVars

\* line 139: the range is exhausted
SchedDispatchDone ==
    /\ pc = "sched_dispatch"
    /\ sched.next >= Len(sched.eligible)
    /\ pc' = "sched_collect"
    /\ UNCHANGED <<sched, now, marketOpen, schedOther>>
    /\ UNCHANGED sideVars

\* the batch variable left by the dispatch loop
LastBatch(sc) ==
    IF sc.exceeded THEN Batch(sc.eligible, sc.next)
    ELSE sc.dispatched[Len(sc.dispatched)].ids

\* lines 157-180: wait for one dispatched batch
SchedCollect ==
    /\ pc = "sched_collect"
    /\ sched.collected < Len(sched.dispatched)
    /\ \E outcome \in BatchOutcomes :
          LET ids == sched.dispatched[sched.collected + 1].ids IN
          sched' = [sched EXCEPT
                       !.collected = @ + 1,
                       !.executed = IF outcome = "succeeded"
                                    THEN @ + Len(ids) ELSE @,
                       !.failed = IF outcome = "failed" THEN @ + Len(ids)
                                  ELSE IF outcome = "raised"
                                  THEN @ + Len(LastBatch(sched)) ELSE @]
    /\ UNCHANGED <<pc, now, marketOpen, schedOther>>
    /\ UNCHANGED sideVars

\* lines 182-194: summary, post-execution tasks, return
SchedReturn ==
    /\ pc = "sched_collect"
    /\ sched.collected = Len(sched.dispatched)
    /\ pc' = "sched_done"
    /\ UNCHANGED <<sched, now, marketOpen, schedOther>>
    /\ UNCHANGED sideVars

\* symphonies the scheduler has dispatched
Dispatched ==
    UNION {SeqToSet(sched.dispatched[b].ids) : b \in DOMAIN sched.dispatched}

(***************************************************************************)
(* Runs of execute_symphony_algorithm on the worker pool.  A run is        *)
(* dispatched by the daily scheduler, by execute_user_symphonies or as a   *)
(* retry by handle_algorithm_execution_failures; nothing in the task or in *)
(* the dispatchers looks for another run of the same symphony.             *)
(***************************************************************************)
\* worker_concurrency of the Celery application
WorkerConcurrency == 8

\* the steps of one run, in the order the task takes them
RunSteps == <<"fetch", "evaluate", "plan", "submit", "poll">>

InProgress == SeqToSet(RunSteps)

StepAfter(step) ==
    LET i == CHOOSE k \in DOMAIN RunSteps : RunSteps[k] = step
    IN IF i < Len(RunSteps) THEN RunSteps[i + 1] ELSE "done"

\* every variable of the pipeline at rest
PipelineIdle ==
    /\ pc = "idle"
    /\ hasToken = TRUE
    /\ cash = 0
    /\ positions = [k \in Syms \X Symbols |-> 0]
    /\ symStatus = [s \in Syms |-> "active"]
    /\ targets = << >>
    /\ account = NoAccount
    /\ plan = << >>
    /\ idx = 1
    /\ brokerOrders = << >>
    /\ trades = << >>
    /\ waitSet = {}
    /\ polls = 0
    /\ liqCaller = "none"
    /\ liqQueue = << >>
    /\ lastError = [s \in Syms |-> "none"]
    /\ runSym = 1
    /\ TaskIdle
    /\ CriticalIdle
    /\ SchedIdle

pipelineVars == <<tradeVars, runSym, taskVars, critVars, schedVars>>

\* what the worker pool leaves alone
exceptRuns == <<pipelineVars, alloc, cond, registry, elig, md, limiter, rec, errs, review, recov, batching, ranking, planner, filter, parser, fills>>

RunsInit ==
    /\ PipelineIdle
    /\ FillsIdle
    /\ ParserIdle
    /\ FilterIdle
    /\ PlannerIdle
    /\ RankingIdle
    /\ BatchingIdle
    /\ RecovIdle
    /\ ReviewIdle
    /\ ErrsIdle
    /\ RecIdle
    /\ LimiterIdle
    /\ MdIdle
    /\ EligIdle
    /\ RunsIdle
    /\ AllocIdle
    /\ CondIdle
    /\ RegistryIdle

\* the symphonies a dispatcher finds active
ActiveSet == {s \in Syms : symStatus[s] = "active"}

\* symphony_scheduler.py, lines 126-153: one task per eligible symphony
RunsDispatchScheduled ==
    /\ \A s \in Syms : runs[<<"scheduled", s>>] = "none"
    /\ runs' = [r \in Origins \X Syms |->
                  IF r[1] = "scheduled" /\ r[2] \in ActiveSet
                  THEN "queued" ELSE runs[r]]
    /\ UNCHANGED exceptRuns

\* execute_user_symphonies, lines 272-289: one task per active symphony
RunsDispatchUser ==
    /\ \A s \in Syms : runs[<<"per_user", s>>] = "none"
    /\ runs' = [r \in Origins \X Syms |->
                  IF r[1] = "per_user" /\ r[2] \in ActiveSet
                  THEN "queued" ELSE runs[r]]
    /\ UNCHANGED exceptRuns

\* handle_algorithm_execution_failures, lines 248-264: a recorded failure
\* of a symphony that is still active is retried once
RunsDispatchRetry ==
    /\ \E s \in ActiveSet :
          /\ \E o \in Origins : runs[<<o, s>>] = "failed"
          /\ runs[<<"retry", s>>] = "none"
          /\ runs' = [runs EXCEPT ![<<"retry", s>>] = "queued"]
    /\ UNCHANGED exceptRuns

\* a free worker takes a queued task
RunStart ==
    /\ Cardinality({r \in Origins \X Syms : runs[r] \in InProgress})
          < WorkerConcurrency
    /\ \E r \in Origins \X Syms :
          /\ runs[r] = "queued"
          /\ runs' = [runs EXCEPT ![r] = RunSteps[1]]
    /\ UNCHANGED exceptRuns

\* execute_symphony_algorithm, lines 108-209: the run takes its next step
RunAdvance ==
    /\ \E r \in Origins \X Syms :
          /\ runs[r] \in InProgress
          /\ runs' = [runs EXCEPT ![r] = StepAfter(runs[r])]
    /\ UNCHANGED exceptRuns

\* execute_symphony_algorithm, lines 134-143 and 226-240: the run fails
RunFail ==
    /\ \E r \in Origins \X Syms :
          /\ runs[r] \in {"evaluate", "submit"}
          /\ runs' = [runs EXCEPT ![r] = "failed"]
    /\ UNCHANGED exceptRuns

(***************************************************************************)
(* One evaluation: the weighting step and _generate_allocations.           *)
(***************************************************************************)
\* what an evaluation leaves alone
exceptAlloc == <<pipelineVars, runs, cond, registry, elig, md, limiter, rec, errs, review, recov, batching, ranking, planner, filter, parser, fills>>

\* the 'allocation' object of an algorithm, in 1/AllocScale
AllocationChoices ==
    {c \in [min_allocation : {0, 6000}, max_allocation : {3000, AllocScale},
            cash_buffer : {0, 500, AllocScale}] :
        c.min_allocation <= c.max_allocation}

\* the weighting steps of an algorithm: method, custom weights and
\* constraints, in 1/AllocScale
WeightingChoices ==
    [method : {"equal", "custom"},
     weights : {[s \in Symbols |-> IF s = "AAA" THEN 7000 ELSE 3000],
                [s \in Symbols |-> 0]},
     constraints : {[min_weight |-> 0, max_weight |-> AllocScale],
                    [min_weight |-> 0, max_weight |-> 4000]}]

\* _execute_weighting_step, methods 'equal' and 'custom'
ExecuteWeightingStep(st, step) ==
    LET w == IF step.method = "equal" THEN ExecuteStep("weighting_equal", st)
             ELSE [st EXCEPT !.den = AllocScale,
                             !.assets = [i \in DOMAIN st.assets |->
                                [st.assets[i] EXCEPT
                                    !.num = step.weights[st.assets[i].symbol]]]]
    IN IF w.raised THEN w ELSE ApplyWeightConstraints(w, step.constraints)

\* execute_symphony, lines 97-100: the market data has been fetched
AllocInit ==
    /\ PipelineIdle
    /\ FillsIdle
    /\ ParserIdle
    /\ FilterIdle
    /\ PlannerIdle
    /\ RankingIdle
    /\ BatchingIdle
    /\ RecovIdle
    /\ ReviewIdle
    /\ ErrsIdle
    /\ RecIdle
    /\ LimiterIdle
    /\ MdIdle
    /\ EligIdle
    /\ RunsIdle
    /\ CondIdle
    /\ RegistryIdle
    /\ \E fetchedSyms \in SUBSET Symbols, cfg \in AllocationChoices :
          alloc = [pc |-> "fetched",
                   st |-> FetchAssetData(fetchedSyms) @@ [raised |-> FALSE],
                   cfg |-> cfg,
                   result |-> << >>]

\* execute_symphony, lines 103-106: a weighting step of the algorithm; an
\* exception ends the evaluation with an error
AllocWeighting ==
    /\ alloc.pc = "fetched"
    /\ \E step \in WeightingChoices :
          LET st == ExecuteWeightingStep(alloc.st, step)
          IN alloc' = [alloc EXCEPT !.st = st,
                                    !.pc = IF st.raised THEN "failed" ELSE "weighted"]
    /\ UNCHANGED exceptAlloc

\* execute_symphony, lines 109-111: the evaluation completes
AllocGenerate ==
    /\ alloc.pc \in {"fetched", "weighted"}
    /\ alloc' = [alloc EXCEPT !.result = GenerateAllocationsFor(alloc.st, alloc.cfg),
                              !.pc = "done"]
    /\ UNCHANGED exceptAlloc

(***************************************************************************)
(* Conditions: _evaluate_condition and the values it reads.                *)
(***************************************************************************)
\* the indicator names of the model: 'rsi' is one _calculate_indicators
\* computes, 'momentum' is one it has no branch for
IndicatorNames == {"rsi", "momentum"}

\* asset_data.indicators.get(indicator, Decimal('0')) after the indicator
\* was calculated when absent.  An AssetData is [indicators], a dict
\* entry is [has, value]; the rsi of the fetched prices is 70.
IndicatorValue(asset_data, indicator) ==
    LET calculated == IF asset_data.indicators[indicator].has
                      THEN asset_data.indicators
                      ELSE IF indicator = "rsi"
                      THEN [asset_data.indicators EXCEPT
                               ![indicator] = [has |-> TRUE, value |-> 70]]
                      ELSE asset_data.indicators
    IN IF calculated[indicator].has THEN calculated[indicator].value ELSE 0

\* _evaluate_indicator_condition
EvaluateIndicatorCondition(condition, asset_data_map) ==
    IF ~asset_data_map[condition.symbol].present THEN FALSE
    ELSE LET value == IndicatorValue(asset_data_map[condition.symbol], condition.indicator)
         IN IF condition.operator = ">" THEN value > condition.threshold
            ELSE IF condition.operator = "<" THEN value < condition.threshold
            ELSE IF condition.operator = ">=" THEN value >= condition.threshold
            ELSE IF condition.operator = "<=" THEN value <= condition.threshold
            ELSE FALSE

\* _get_value for a value of type 'literal' or 'indicator'
GetValue(value_spec, asset_data_map) ==
    IF value_spec.type = "literal" THEN value_spec.value
    ELSE IF value_spec.type = "indicator" /\ asset_data_map[value_spec.symbol].present
    THEN IndicatorValue(asset_data_map[value_spec.symbol], value_spec.indicator)
    ELSE 0

\* _evaluate_comparison of the indicator with the threshold
EvaluateComparison(condition, asset_data_map) ==
    LET left == GetValue([type |-> "indicator", symbol |-> condition.symbol,
                          indicator |-> condition.indicator], asset_data_map)
        right == GetValue([type |-> "literal", value |-> condition.threshold],
                          asset_data_map)
    IN IF condition.operator = ">" THEN left > right
       ELSE IF condition.operator = "<" THEN left < right
       ELSE IF condition.operator = ">=" THEN left >= right
       ELSE IF condition.operator = "<=" THEN left <= right
       ELSE IF condition.operator = "==" THEN left = right
       ELSE IF condition.operator = "!=" THEN left # right
       ELSE FALSE

\* _evaluate_condition
EvaluateCondition(condition, asset_data_map) ==
    IF condition.type = "comparison"
    THEN EvaluateComparison(condition, asset_data_map)
    ELSE IF condition.type = "indicator"
    THEN EvaluateIndicatorCondition(condition, asset_data_map)
    ELSE FALSE

\* the conditions of a conditional step
ConditionChoices ==
    [type : {"comparison", "indicator"}, symbol : {"AAA"},
     indicator : IndicatorNames, operator : {">", "<", ">=", "<=", "==", "!="},
     threshold : {-10, 30}]

\* the asset data by the time the condition is evaluated: the symbol's
\* data was not fetched, or was fetched with either no indicator or the
\* rsi already calculated
AssetMapChoices ==
    LET none == [n \in IndicatorNames |-> [has |-> FALSE, value |-> 0]]
    IN {[s \in {"AAA"} |-> [present |-> FALSE, indicators |-> none]],
        [s \in {"AAA"} |-> [present |-> TRUE, indicators |-> none]],
        [s \in {"AAA"} |-> [present |-> TRUE,
                            indicators |-> [none EXCEPT !["rsi"] =
                                               [has |-> TRUE, value |-> 20]]]]}

\* _execute_conditional_step is about to evaluate the step's condition
CondInit ==
    /\ PipelineIdle
    /\ FillsIdle
    /\ ParserIdle
    /\ FilterIdle
    /\ PlannerIdle
    /\ RankingIdle
    /\ BatchingIdle
    /\ RecovIdle
    /\ ReviewIdle
    /\ ErrsIdle
    /\ RecIdle
    /\ LimiterIdle
    /\ MdIdle
    /\ EligIdle
    /\ RunsIdle
    /\ AllocIdle
    /\ RegistryIdle
    /\ \E condition \in ConditionChoices, asset_data_map \in AssetMapChoices :
          cond = [pc |-> "ready", condition |-> condition,
                  asset_data_map |-> asset_data_map, result |-> FALSE]

\* the condition is evaluated
CondEvaluate ==
    /\ cond.pc = "ready"
    /\ cond' = [cond EXCEPT !.result = EvaluateCondition(cond.condition,
                                                         cond.asset_data_map),
                            !.pc = "done"]
    /\ UNCHANGED <<pipelineVars, runs, alloc, registry, elig, md, limiter, rec, errs, review, recov, batching, ranking, planner, filter, parser, fills>>

(***************************************************************************)
(* The validator and the symphonies table: SymphonyValidator.validate,     *)
(* SymphonyService and the daily validate_all_symphonies.                  *)
(***************************************************************************)
\* the bounds _validate_metrics compares a window with
MinWindow == 1
MaxWindow == 252

\* the trees of the model: the number of children of the root, and the
\* window of the metric of its filter or if-child step
TreeChoices == [children : {0, 1}, window : {0, 20, 300}]

\* SymphonyValidator.validate: a ValidationError, named after the check
\* that raised it, or the list of warnings
Validate(tree) ==
    IF tree.children = 0
    THEN [called |-> TRUE, tree |-> tree, raised |-> TRUE, kind |-> "Structure",
          warnings |-> {}]
    ELSE [called |-> TRUE, tree |-> tree, raised |-> FALSE, kind |-> "none",
          warnings |-> IF tree.window < MinWindow \/ tree.window > MaxWindow
                       THEN {"Window parameter should be between 1-252 days"}
                       ELSE {}]

NoValidation ==
    [called |-> FALSE, tree |-> [children |-> 0, window |-> 0], raised |-> FALSE,
     kind |-> "none", warnings |-> {}]

NoSymphony ==
    [exists |-> FALSE, tree |-> [children |-> 0, window |-> 0],
     is_active |-> FALSE, error_message |-> FALSE]

\* an empty symphonies table
RegistryInit ==
    /\ PipelineIdle
    /\ FillsIdle
    /\ ParserIdle
    /\ FilterIdle
    /\ PlannerIdle
    /\ RankingIdle
    /\ BatchingIdle
    /\ RecovIdle
    /\ ReviewIdle
    /\ ErrsIdle
    /\ RecIdle
    /\ LimiterIdle
    /\ MdIdle
    /\ EligIdle
    /\ RunsIdle
    /\ AllocIdle
    /\ CondIdle
    /\ registry = [pc |-> "serving",
                   symphonies |-> [s \in Syms |-> NoSymphony],
                   validation |-> NoValidation]

\* create_symphony
CreateSymphony ==
    /\ registry.pc = "serving"
    /\ \E s \in Syms, tree \in TreeChoices :
          /\ ~registry.symphonies[s].exists
          /\ registry' =
                [registry EXCEPT
                    !.validation = Validate(tree),
                    !.symphonies[s] =
                        IF Validate(tree).raised THEN @
                        ELSE [exists |-> TRUE, tree |-> tree, is_active |-> TRUE,
                              error_message |-> FALSE]]
    /\ UNCHANGED <<pipelineVars, runs, alloc, cond, elig, md, limiter, rec, errs, review, recov, batching, ranking, planner, filter, parser, fills>>

\* update_symphony, with or without a new algorithm and a new active
\* flag: nothing is committed when the validation raises
UpdateSymphony ==
    /\ registry.pc = "serving"
    /\ \E s \in Syms, given \in BOOLEAN, tree \in TreeChoices,
          is_active \in {"unset", "true", "false"} :
          /\ registry.symphonies[s].exists
          /\ registry' =
                [registry EXCEPT
                    !.validation = IF given THEN Validate(tree) ELSE @,
                    !.symphonies[s] =
                        IF given /\ Validate(tree).raised THEN @
                        ELSE [@ EXCEPT !.tree = IF given THEN tree ELSE @,
                                       !.is_active = IF is_active = "unset" THEN @
                                                     ELSE is_active = "true"]]
    /\ UNCHANGED <<pipelineVars, runs, alloc, cond, elig, md, limiter, rec, errs, review, recov, batching, ranking, planner, filter, parser, fills>>

\* toggle_symphony_active
ToggleSymphonyActive ==
    /\ registry.pc = "serving"
    /\ \E s \in Syms :
          /\ registry.symphonies[s].exists
          /\ registry' = [registry EXCEPT !.symphonies[s].is_active = ~@]
    /\ UNCHANGED <<pipelineVars, runs, alloc, cond, elig, md, limiter, rec, errs, review, recov, batching, ranking, planner, filter, parser, fills>>

\* what validate_symphony can answer for a stored symphony: 'valid', or
\* errors with or without a critical one.  A tree the validator rejects is
\* never valid; the universe and the user's connection can fail for any tree.
ValidateSymphonyOutcomes(sym) ==
    IF Validate(sym.tree).raised THEN {"errors", "critical"}
    ELSE {"valid", "errors", "critical"}

\* validate_all_symphonies
ValidateAllSymphonies ==
    /\ registry.pc = "serving"
    /\ \E outcome \in [Syms -> {"valid", "errors", "critical"}] :
          /\ \A s \in Syms :
                outcome[s] \in ValidateSymphonyOutcomes(registry.symphonies[s])
          /\ registry' =
                [registry EXCEPT !.symphonies =
                    [s \in Syms |->
                        LET sym == registry.symphonies[s]
                        IN IF ~sym.exists THEN sym
                           ELSE IF outcome[s] = "valid"
                           THEN IF ~sym.is_active /\ sym.error_message
                                THEN [sym EXCEPT !.is_active = TRUE,
                                                 !.error_message = FALSE]
                                ELSE sym
                           ELSE IF sym.is_active /\ outcome[s] = "critical"
                           THEN [sym EXCEPT !.is_active = FALSE,
                                            !.error_message = TRUE]
                           ELSE sym]]
    /\ UNCHANGED <<pipelineVars, runs, alloc, cond, elig, md, limiter, rec, errs, review, recov, batching, ranking, planner, filter, parser, fills>>

\* handle_algorithm_failure, lines 352-357: the symphony that failed is
\* deactivated
DeactivateFailedSymphony ==
    /\ registry.pc = "serving"
    /\ \E s \in Syms :
          /\ registry.symphonies[s].exists
          /\ registry.symphonies[s].is_active
          /\ registry' = [registry EXCEPT !.symphonies[s].is_active = FALSE,
                                          !.symphonies[s].error_message = TRUE]
    /\ UNCHANGED <<pipelineVars, runs, alloc, cond, elig, md, limiter, rec, errs, review, recov, batching, ranking, planner, filter, parser, fills>>

(***************************************************************************)
(* Selection of a symphony for execution: RebalancingService for the       *)
(* scheduler, then _should_rebalance of the evaluator inside the task.     *)
(***************************************************************************)
\* last day of the calendar of the model
MaxDay == 16

\* the calendar: day 0 is Monday 1 January, a year of 31-day months is
\* enough for MaxDay
DateOf(n) ==
    [ord |-> n, weekday |-> n % 7, day |-> (n % 31) + 1, month |-> (n \div 31) + 1,
     year |-> 0]

\* the tickers and target weights of a threshold symphony, in 1/AllocScale
DriftTargets ==
    [t \in {"AAA", "BBB", "CCC"} |-> IF t = "CCC" THEN 2000 ELSE 4000]

\* DriftCalculationService.calculate_max_drift, in 1/(AllocScale * total):
\* the largest |target - current| over the targets, and the current weight
\* of a holding without target
CalculateMaxDrift(cur, tgt) ==
    LET total == MarketValue(cur)
        held(t) == SumSeq([i \in DOMAIN cur |->
                              IF cur[i].symbol = t THEN cur[i].market_value ELSE 0])
        drift(t) == Abs(tgt[t] * total - held(t) * AllocScale)
    IN IF total = 0 THEN AllocScale
       ELSE CHOOSE d \in {drift(t) : t \in DOMAIN tgt} :
               \A t \in DOMAIN tgt : drift(t) <= d

\* RebalancingService._check_time_based_rebalancing
ServiceCheckTimeBased(frequency, last_executed, today) ==
    LET last == DateOf(last_executed.ord)
    IN IF ~last_executed.has THEN TRUE
       ELSE IF frequency = "daily" THEN TRUE
       ELSE IF frequency = "weekly" THEN today.ord - last.ord >= 7
       ELSE IF frequency = "monthly"
       THEN today.year > last.year \/ today.month > last.month
       ELSE IF frequency = "quarterly"
       THEN \/ today.year > last.year
            \/ (today.month - 1) \div 3 > (last.month - 1) \div 3
       ELSE IF frequency = "yearly" THEN today.year > last.year
       ELSE TRUE

\* RebalancingService._check_threshold_rebalancing: _get_symphony_positions
\* is a placeholder that returns no position, so the answer is always
\* "initial allocation needed"
ServiceCheckThreshold(corridor, tgt) ==
    LET found == << >>
    IN IF found = << >> THEN TRUE
       ELSE CalculateMaxDrift(found, tgt) > corridor * MarketValue(found)

\* check_symphony_eligibility
CheckSymphonyEligibility(symphony, today) ==
    IF symphony.rebalance = "none"
    THEN ServiceCheckThreshold(symphony.corridor, DriftTargets)
    ELSE ServiceCheckTimeBased(symphony.rebalance, symphony.last_executed, today)

\* the symphonies of the model: time-based ones with their last execution,
\* threshold ones with their corridor width in 1/AllocScale
EligSymphonyChoices ==
    {[rebalance |-> f, last_executed |-> [has |-> h, ord |-> o], corridor |-> 0] :
        f \in {"daily", "weekly", "monthly", "quarterly", "yearly"},
        h \in BOOLEAN, o \in {0, 2, 7}}
    \cup {[rebalance |-> "none", last_executed |-> [has |-> FALSE, ord |-> 0],
           corridor |-> c] : c \in {500, 1500, 2000}}

\* market values of the positions the symphony holds
EligPositionChoices ==
    {<< >>,
     <<[symbol |-> "AAA", market_value |-> 50], [symbol |-> "BBB", market_value |-> 50]>>,
     <<[symbol |-> "AAA", market_value |-> 40], [symbol |-> "BBB", market_value |-> 40],
       [symbol |-> "CCC", market_value |-> 20]>>,
     <<[symbol |-> "AAA", market_value |-> 100]>>}

\* the scheduler is about to look at one active symphony
EligInit ==
    /\ PipelineIdle
    /\ FillsIdle
    /\ ParserIdle
    /\ FilterIdle
    /\ PlannerIdle
    /\ RankingIdle
    /\ BatchingIdle
    /\ RecovIdle
    /\ ReviewIdle
    /\ ErrsIdle
    /\ RecIdle
    /\ LimiterIdle
    /\ MdIdle
    /\ RunsIdle
    /\ AllocIdle
    /\ CondIdle
    /\ RegistryIdle
    /\ \E symphony \in EligSymphonyChoices, n \in 0..MaxDay,
          positions_held \in EligPositionChoices :
          /\ symphony.last_executed.has => symphony.last_executed.ord <= n
          /\ symphony.rebalance # "none" => positions_held = << >>
          /\ elig = [pc |-> "ready", symphony |-> symphony, today |-> DateOf(n),
                     positions |-> positions_held,
                     eligible |-> FALSE, should_rebalance |-> FALSE]

\* execute_daily_symphonies, lines 93-102: the eligibility of the symphony
EligCheck ==
    /\ elig.pc = "ready"
    /\ LET e == CheckSymphonyEligibility(elig.symphony, elig.today)
       IN elig' = [elig EXCEPT !.eligible = e,
                               !.pc = IF e THEN "selected" ELSE "skipped"]
    /\ UNCHANGED <<pipelineVars, runs, alloc, cond, registry, md, limiter, rec, errs, review, recov, batching, ranking, planner, filter, parser, fills>>

\* execute_symphony, lines 92-95: the task of a selected symphony asks the
\* evaluator whether to rebalance
EligShouldRebalance ==
    /\ elig.pc = "selected"
    /\ LET rb == [type |-> IF elig.symphony.rebalance = "none"
                          THEN "threshold_based" ELSE "time_based",
                  frequency |-> elig.symphony.rebalance,
                  threshold |-> elig.symphony.corridor]
       IN elig' = [elig EXCEPT
                     !.should_rebalance =
                         ShouldRebalanceFor(rb, elig.positions, elig.today, DriftTargets),
                     !.pc = "done"]
    /\ UNCHANGED <<pipelineVars, runs, alloc, cond, registry, md, limiter, rec, errs, review, recov, batching, ranking, planner, filter, parser, fills>>

(***************************************************************************)
(* Market data: MarketDataService.get_quote and get_historical_data over   *)
(* DataCacheService.                                                       *)
(***************************************************************************)
\* TTL_QUOTE, TTL_DAILY and TTL_HISTORICAL, in seconds
TtlQuote == 60
TtlDaily == 3600
TtlHistorical == 86400

\* seconds between two instants of the model's clock, and its last instant
SecondsPerTick == 30
MaxMdTicks == 3

\* QUOTE_SOURCES and HISTORICAL_SOURCES
QuoteSources == <<"eod_historical", "alpha_vantage">>

\* _get_cache_key without extra components
GetCacheKey(data_type, symbol, source) == <<"market_data", data_type, symbol, source>>

\* DataCacheService.get: the entry under the key that has not expired
CacheGet(cache, data_type, symbol, source, t) ==
    {e \in cache : /\ e.key = GetCacheKey(data_type, symbol, source)
                   /\ t < e.written + e.ttl}

\* json.dumps of the serialised payload succeeds: _serialize_decimal turns
\* Decimal values into strings and leaves a datetime as it is, and both
\* Quote and HistoricalData carry datetime fields
JsonDumpsSucceeds(data_type) == data_type \notin {"quote", "historical"}

\* DataCacheService.set with no ttl_seconds: the TTL of the data type, the
\* key, and the entry when the payload could be serialised
CacheSet(cache, data_type, symbol, source, t) ==
    LET ttl_seconds == IF data_type = "quote" THEN TtlQuote
                       ELSE IF data_type = "daily" THEN TtlDaily
                       ELSE IF data_type = "historical" THEN TtlHistorical
                       ELSE TtlDaily
        key == GetCacheKey(data_type, symbol, source)
        ok == JsonDumpsSucceeds(data_type)
    IN [cache |-> IF ok
                  THEN {e \in cache : e.key # key}
                       \cup {[key |-> key, written |-> t, ttl |-> ttl_seconds]}
                  ELSE cache,
        called |-> TRUE, data_type |-> data_type, ttl_seconds |-> ttl_seconds,
        ok |-> ok]

\* the provider loop of get_quote and get_historical_data: the sources in
\* order until one succeeds.  succeeds[src] tells whether the client of
\* src answers.
RECURSIVE TrySources(_, _, _)
TrySources(sources, succeeds, called) ==
    IF sources = << >>
    THEN [from |-> "none", called |-> called]
    ELSE IF succeeds[Head(sources)]
    THEN [from |-> Head(sources), called |-> Append(called, Head(sources))]
    ELSE TrySources(Tail(sources), succeeds, Append(called, Head(sources)))

\* get_quote (data_type "quote") and get_historical_data with the daily
\* interval (data_type "historical"), use_cache=True and no preferred
\* source.  When every source failed the function executes
\* `raise MarketDataError(...)`; MarketDataError is a pydantic model, not
\* an exception class, so what the caller gets is a TypeError.
GetMarketData(state, data_type, symbol, succeeds) ==
    LET t == state.clock * SecondsPerTick
        cached == CacheGet(state.cache, data_type, symbol, "cache", t)
        tried == TrySources(QuoteSources, succeeds, << >>)
        written == CacheSet(state.cache, data_type, symbol, tried.from, t)
        call == [data_type |-> data_type, symbol |-> symbol, at |-> t,
                 prior |-> state.fetched[<<data_type, symbol>>]]
    IN IF cached # {}
       THEN [state EXCEPT !.last = call @@ [from |-> "cache", called |-> << >>,
                                            raised |-> "none", cause |-> "none"]]
       ELSE IF tried.from # "none"
       THEN [state EXCEPT
                !.cache = written.cache,
                !.lastSet = [called |-> TRUE, data_type |-> data_type,
                             ttl_seconds |-> written.ttl_seconds, ok |-> written.ok],
                !.fetched[<<data_type, symbol>>] = [has |-> TRUE, at |-> t],
                !.last = call @@ [from |-> tried.from, called |-> tried.called,
                                  raised |-> "none", cause |-> "none"]]
       ELSE [state EXCEPT !.last = call @@ [from |-> "none", called |-> tried.called,
                                            raised |-> "TypeError", cause |-> "none"]]

\* a service with an empty cache and no call made
MdInit ==
    /\ PipelineIdle
    /\ FillsIdle
    /\ ParserIdle
    /\ FilterIdle
    /\ PlannerIdle
    /\ RankingIdle
    /\ BatchingIdle
    /\ RecovIdle
    /\ ReviewIdle
    /\ ErrsIdle
    /\ RecIdle
    /\ LimiterIdle
    /\ RunsIdle
    /\ AllocIdle
    /\ CondIdle
    /\ RegistryIdle
    /\ EligIdle
    /\ md = [pc |-> "serving", clock |-> 0, cache |-> {},
             fetched |-> [k \in {"quote", "historical"} \X Symbols |->
                             [has |-> FALSE, at |-> 0]],
             lastSet |-> [called |-> FALSE, data_type |-> "none", ttl_seconds |-> 0,
                          ok |-> FALSE],
             last |-> [data_type |-> "none", symbol |-> "none", at |-> 0,
                       prior |-> [has |-> FALSE, at |-> 0], from |-> "none",
                       called |-> << >>, raised |-> "none", cause |-> "none"]]

\* get_quote(symbol)
GetQuote ==
    /\ md.pc = "serving"
    /\ \E symbol \in Symbols, succeeds \in [{"eod_historical", "alpha_vantage"} -> BOOLEAN] :
          md' = GetMarketData(md, "quote", symbol, succeeds)
    /\ UNCHANGED <<pipelineVars, runs, alloc, cond, registry, elig, limiter, rec, errs, review, recov, batching, ranking, planner, filter, parser, fills>>

\* get_historical_data(symbol, interval=DAILY)
GetHistoricalData ==
    /\ md.pc = "serving"
    /\ \E symbol \in Symbols, succeeds \in [{"eod_historical", "alpha_vantage"} -> BOOLEAN] :
          md' = GetMarketData(md, "historical", symbol, succeeds)
    /\ UNCHANGED <<pipelineVars, runs, alloc, cond, registry, elig, limiter, rec, errs, review, recov, batching, ranking, planner, filter, parser, fills>>

\* time passes between two calls
MdTick ==
    /\ md.pc = "serving"
    /\ md.clock < MaxMdTicks
    /\ md' = [md EXCEPT !.clock = @ + 1]
    /\ UNCHANGED <<pipelineVars, runs, alloc, cond, registry, elig, limiter, rec, errs, review, recov, batching, ranking, planner, filter, parser, fills>>

(***************************************************************************)
(* Provider rate limiters: AlphaVantageClient._rate_limit and              *)
(* EODHistoricalClient._rate_limit.  Time is counted in tenths of a        *)
(* second.                                                                 *)
(***************************************************************************)
\* RATE_LIMIT and RATE_WINDOW of the two clients
RateLimits ==
    [alpha_vantage |-> [RATE_LIMIT |-> 5, RATE_WINDOW |-> 60 * 10],
     eod_historical |-> [RATE_LIMIT |-> 20, RATE_WINDOW |-> 1 * 10]]

\* requests made of one client, and pauses of the clock, in one behaviour
MaxRequests == 21
MaxPauses == 2

\* lengths of a pause: a tenth of a second, a second, 61 seconds
Pauses == {1, 10, 610}

\* the call times that stay after "remove old calls outside the rate window"
RECURSIVE PruneCallTimes(_, _, _)
PruneCallTimes(call_times, at, window) ==
    IF call_times = << >> THEN << >>
    ELSE IF at - Head(call_times) < window
    THEN <<Head(call_times)>> \o PruneCallTimes(Tail(call_times), at, window)
    ELSE PruneCallTimes(Tail(call_times), at, window)

\* the smallest of the call times
RECURSIVE MinCallTime(_)
MinCallTime(call_times) ==
    IF Len(call_times) = 1 THEN call_times[1]
    ELSE LET m == MinCallTime(Tail(call_times))
         IN IF call_times[1] < m THEN call_times[1] ELSE m

\* how long _rate_limit sleeps when the pruned list is at the limit:
\* Alpha Vantage waits for the oldest call to leave the window plus one
\* second, EOD Historical a tenth of a second; 0 is no sleep
SleepTime(provider, call_times, at) ==
    IF Len(call_times) < RateLimits[provider].RATE_LIMIT THEN 0
    ELSE IF provider = "eod_historical" THEN 1
    ELSE LET wait_time == RateLimits[provider].RATE_WINDOW
                             - (at - MinCallTime(call_times))
         IN IF wait_time > 0 THEN wait_time + 10 ELSE 0

\* a client that has made no request
LimiterInit ==
    /\ PipelineIdle
    /\ FillsIdle
    /\ ParserIdle
    /\ FilterIdle
    /\ PlannerIdle
    /\ RankingIdle
    /\ BatchingIdle
    /\ RecovIdle
    /\ ReviewIdle
    /\ ErrsIdle
    /\ RecIdle
    /\ RunsIdle
    /\ AllocIdle
    /\ CondIdle
    /\ RegistryIdle
    /\ EligIdle
    /\ MdIdle
    /\ \E provider \in {"alpha_vantage", "eod_historical"} :
          limiter = [pc |-> "running", provider |-> provider, now |-> 0,
                     pauses |-> 0, call_times |-> << >>, sleeping |-> << >>,
                     sent |-> << >>]

\* a coroutine enters _request: _rate_limit reads the clock, prunes the
\* list, and either records the call and lets the request go out, or
\* goes to sleep holding the instant it read
RateLimitEnter ==
    /\ limiter.pc = "running"
    /\ Len(limiter.sent) + Len(limiter.sleeping) < MaxRequests
    /\ LET pruned == PruneCallTimes(limiter.call_times, limiter.now,
                                    RateLimits[limiter.provider].RATE_WINDOW)
           sleep == SleepTime(limiter.provider, pruned, limiter.now)
       IN limiter' =
             IF sleep = 0
             THEN [limiter EXCEPT !.call_times = Append(pruned, limiter.now),
                                  !.sent = Append(@, limiter.now)]
             ELSE [limiter EXCEPT !.call_times = pruned,
                                  !.sleeping = Append(@, [now |-> limiter.now,
                                                          wake |-> limiter.now + sleep])]
    /\ UNCHANGED <<pipelineVars, runs, alloc, cond, registry, elig, md, rec, errs, review, recov, batching, ranking, planner, filter, parser, fills>>

\* a sleeping coroutine resumes: it records the instant it read before the
\* sleep, without looking at the list again, and its request goes out
RateLimitWake ==
    /\ limiter.pc = "running"
    /\ \E i \in 1..Len(limiter.sleeping) :
          /\ limiter.sleeping[i].wake <= limiter.now
          /\ limiter' = [limiter EXCEPT
                !.call_times = Append(@, limiter.sleeping[i].now),
                !.sleeping = SubSeq(@, 1, i - 1) \o SubSeq(@, i + 1, Len(@)),
                !.sent = Append(@, limiter.now)]
    /\ UNCHANGED <<pipelineVars, runs, alloc, cond, registry, elig, md, rec, errs, review, recov, batching, ranking, planner, filter, parser, fills>>

\* time passes
RateLimitPause ==
    /\ limiter.pc = "running"
    /\ limiter.pauses < MaxPauses
    /\ \E dt \in Pauses :
          limiter' = [limiter EXCEPT !.now = @ + dt, !.pauses = @ + 1]
    /\ UNCHANGED <<pipelineVars, runs, alloc, cond, registry, elig, md, rec, errs, review, recov, batching, ranking, planner, filter, parser, fills>>

(***************************************************************************)
(* Position reconciliation: the task reconcile_positions and               *)
(* AlpacaTradingService.sync_positions, for one user.  A Position row      *)
(* belongs to a symphony; owner 0 is a row written without one.            *)
(***************************************************************************)
Owners == Syms \cup {0}

\* a place of the table with no row
NoRow == [row |-> FALSE, is_open |-> FALSE, quantity |-> 0]

\* the owners of the user's rows for a symbol, and of the open ones
RowsOf(rows, symbol) == {o \in Owners : rows[o, symbol].row}
OpenRowsOf(rows, symbol) == {o \in Owners : rows[o, symbol].row /\ rows[o, symbol].is_open}

\* the total quantity of the open rows for a symbol
OpenQuantity(rows, symbol) ==
    SumSeq([i \in 1..Cardinality(Owners) |->
               IF (i - 1) \in OpenRowsOf(rows, symbol)
               THEN rows[i - 1, symbol].quantity ELSE 0])

\* the loop body of reconcile_positions for one symbol.  db_pos is the
\* row db_map holds for the symbol: the dict is built from a query with no
\* order, so it is any one of the open rows.
ReconcileSymbol(rows, symbol, alpaca_qty, db_pos) ==
    IF alpaca_qty > 0 /\ OpenRowsOf(rows, symbol) = {}
    THEN [rows EXCEPT ![0, symbol] =
             [row |-> TRUE, is_open |-> TRUE, quantity |-> alpaca_qty]]
    ELSE IF alpaca_qty = 0 /\ OpenRowsOf(rows, symbol) # {}
    THEN [rows EXCEPT ![db_pos, symbol].is_open = FALSE]
    ELSE IF alpaca_qty > 0 /\ rows[db_pos, symbol].quantity # alpaca_qty
    THEN [rows EXCEPT ![db_pos, symbol].quantity = alpaca_qty]
    ELSE rows

\* the loop body of sync_positions for one position of the broker.
\* position is what get_position(db, user, symbol) answers: the first row
\* of the user for the symbol, open or not, of any symphony.
SyncSymbol(rows, symbol, alpaca_qty, position) ==
    IF alpaca_qty = 0 THEN rows
    ELSE IF RowsOf(rows, symbol) # {}
    THEN [rows EXCEPT ![position, symbol].quantity = alpaca_qty]
    ELSE [rows EXCEPT ![0, symbol] =
             [row |-> TRUE, is_open |-> TRUE, quantity |-> alpaca_qty]]

\* all the symbols, one after the other
RECURSIVE ForEachSymbol(_, _, _, _, _)
ForEachSymbol(rows, symbols, broker, pick, sync) ==
    IF symbols = << >> THEN rows
    ELSE LET symbol == Head(symbols)
             after == IF sync
                      THEN SyncSymbol(rows, symbol, broker[symbol], pick[symbol])
                      ELSE ReconcileSymbol(rows, symbol, broker[symbol], pick[symbol])
         IN ForEachSymbol(after, Tail(symbols), broker, pick, sync)

\* the broker's positions and the user's rows after the window: every
\* symphony holds none, one or two shares of each symbol
RecInit ==
    /\ PipelineIdle
    /\ FillsIdle
    /\ ParserIdle
    /\ FilterIdle
    /\ PlannerIdle
    /\ RankingIdle
    /\ BatchingIdle
    /\ RecovIdle
    /\ ReviewIdle
    /\ ErrsIdle
    /\ RunsIdle
    /\ AllocIdle
    /\ CondIdle
    /\ RegistryIdle
    /\ EligIdle
    /\ MdIdle
    /\ LimiterIdle
    /\ \E broker \in [Symbols -> 0..2],
          held \in [Syms \X Symbols -> 0..2] :
          rec = [pc |-> "pending", broker |-> broker,
                 rows |-> [k \in Owners \X Symbols |->
                              IF k[1] # 0 /\ held[k] > 0
                              THEN [row |-> TRUE, is_open |-> TRUE, quantity |-> held[k]]
                              ELSE NoRow]]

\* sync_positions(db, user)
SyncPositions ==
    /\ rec.pc = "pending"
    /\ \E pick \in [Symbols -> Owners] :
          /\ \A symbol \in Symbols :
                RowsOf(rec.rows, symbol) # {} => pick[symbol] \in RowsOf(rec.rows, symbol)
          /\ rec' = [rec EXCEPT
                !.pc = "synced",
                !.rows = ForEachSymbol(rec.rows, SymbolSeq, rec.broker, pick, TRUE)]
    /\ UNCHANGED <<pipelineVars, runs, alloc, cond, registry, elig, md, limiter, errs, review, recov, batching, ranking, planner, filter, parser, fills>>

\* reconcile_positions(), the part of one user, ending without error
ReconcilePositions ==
    /\ rec.pc \in {"pending", "synced"}
    /\ \E pick \in [Symbols -> Owners] :
          /\ \A symbol \in Symbols :
                OpenRowsOf(rec.rows, symbol) # {} =>
                    pick[symbol] \in OpenRowsOf(rec.rows, symbol)
          /\ rec' = [rec EXCEPT
                !.pc = "reconciled",
                !.rows = ForEachSymbol(rec.rows, SymbolSeq, rec.broker, pick, FALSE)]
    /\ UNCHANGED <<pipelineVars, runs, alloc, cond, registry, elig, md, limiter, errs, review, recov, batching, ranking, planner, filter, parser, fills>>

(***************************************************************************)
(* Error policy: ErrorHandlerService.should_liquidate, the handling of     *)
(* rejected orders by execute_symphony_trades and _wait_for_order_fills,   *)
(* and handle_insufficient_funds_failures.                                 *)
(***************************************************************************)
\* orders of one plan, and the largest error count asked about
MaxPlanOrders == 3
MaxErrorCount == 10

\* the error types should_liquidate names, and one it does not
ErrorTypes ==
    {"market_data_unavailable", "algorithm_exception", "risk_limit_exceeded",
     "account_blocked", "insufficient_funds", "order_rejected",
     "connection_lost", "rate_limit", "other"}

\* should_liquidate(error_type, error_count)
ShouldLiquidate(error_type, error_count) ==
    IF error_type \in {"market_data_unavailable", "algorithm_exception",
                       "risk_limit_exceeded", "account_blocked",
                       "insufficient_funds"}
    THEN TRUE
    ELSE IF error_type = "order_rejected" THEN error_count >= 3
    ELSE IF error_type = "connection_lost" THEN error_count >= 5
    ELSE IF error_type = "rate_limit" THEN error_count >= 10
    ELSE FALSE

\* the orders of the plan the broker rejected, at submission or later
RejectedOrders(orders) ==
    {i \in 1..Len(orders) : orders[i] \in {"submit_failed", "rejected"}}

\* one symphony with a plan of some orders ready to be executed, and its
\* cash buffer in percent
ErrsInit ==
    /\ PipelineIdle
    /\ FillsIdle
    /\ ParserIdle
    /\ FilterIdle
    /\ PlannerIdle
    /\ RankingIdle
    /\ BatchingIdle
    /\ RecovIdle
    /\ ReviewIdle
    /\ RunsIdle
    /\ AllocIdle
    /\ CondIdle
    /\ RegistryIdle
    /\ EligIdle
    /\ MdIdle
    /\ LimiterIdle
    /\ RecIdle
    /\ \E n \in 1..MaxPlanOrders, cash_buffer \in {0, 10, 40, 50} :
          errs = [pc |-> "submitting", plan |-> n, orders |-> << >>,
                  liquidated |-> FALSE, raised |-> FALSE,
                  verdict |-> [asked |-> FALSE, error_type |-> "other",
                               error_count |-> 1, liquidate |-> FALSE],
                  cash_buffer |-> cash_buffer, handled |-> FALSE,
                  retries |-> 0, is_active |-> TRUE]

\* one turn of the submission loop of execute_symphony_trades: the order
\* is accepted and its trade recorded 'pending', or submit_order raises,
\* the error is noted, a 'failed' trade is recorded and the loop goes on
SubmitPlanOrder ==
    /\ errs.pc = "submitting"
    /\ Len(errs.orders) < errs.plan
    /\ \E outcome \in {"new", "submit_failed"} :
          errs' = [errs EXCEPT !.orders = Append(@, outcome)]
    /\ UNCHANGED <<pipelineVars, runs, alloc, cond, registry, elig, md, limiter, rec, review, recov, batching, ranking, planner, filter, parser, fills>>

\* the loop has submitted the whole plan: _wait_for_order_fills starts
StartWaitForFills ==
    /\ errs.pc = "submitting"
    /\ Len(errs.orders) = errs.plan
    /\ errs' = [errs EXCEPT !.pc = "waiting"]
    /\ UNCHANGED <<pipelineVars, runs, alloc, cond, registry, elig, md, limiter, rec, review, recov, batching, ranking, planner, filter, parser, fills>>

\* _wait_for_order_fills finds an order filled, or cancelled, rejected or
\* expired (its trade becomes 'failed')
PollPlanOrder ==
    /\ errs.pc = "waiting"
    /\ \E i \in 1..Len(errs.orders), status \in {"filled", "rejected"} :
          /\ errs.orders[i] = "new"
          /\ errs' = [errs EXCEPT !.orders[i] = status]
    /\ UNCHANGED <<pipelineVars, runs, alloc, cond, registry, elig, md, limiter, rec, review, recov, batching, ranking, planner, filter, parser, fills>>

\* _wait_for_order_fills returns, every trade closed or the timeout over,
\* and execute_symphony_trades returns (trades, errors)
ReturnTrades ==
    /\ errs.pc = "waiting"
    /\ errs' = [errs EXCEPT !.pc = "returned"]
    /\ UNCHANGED <<pipelineVars, runs, alloc, cond, registry, elig, md, limiter, rec, review, recov, batching, ranking, planner, filter, parser, fills>>

\* an exception outside the try of one order (get_order raises while
\* polling): handle_symphony_error(liquidate=True)
TradesRaise ==
    /\ errs.pc = "waiting"
    /\ errs' = [errs EXCEPT !.pc = "returned", !.raised = TRUE, !.liquidated = TRUE]
    /\ UNCHANGED <<pipelineVars, runs, alloc, cond, registry, elig, md, limiter, rec, review, recov, batching, ranking, planner, filter, parser, fills>>

\* a caller asks should_liquidate
AskShouldLiquidate ==
    /\ errs.pc = "returned"
    /\ ~errs.verdict.asked
    /\ \E error_type \in ErrorTypes, error_count \in 1..MaxErrorCount :
          errs' = [errs EXCEPT !.verdict =
                      [asked |-> TRUE, error_type |-> error_type,
                       error_count |-> error_count,
                       liquidate |-> ShouldLiquidate(error_type, error_count)]]
    /\ UNCHANGED <<pipelineVars, runs, alloc, cond, registry, elig, md, limiter, rec, review, recov, batching, ranking, planner, filter, parser, fills>>

\* handle_insufficient_funds_failures for a failure of the symphony: the
\* cash buffer grows by 10%, at most to 50%, and the run is queued again
HandleInsufficientFundsFailure ==
    /\ errs.pc = "returned"
    /\ errs.retries < 2
    /\ errs' = [errs EXCEPT
          !.cash_buffer = IF @ + 10 < 50 THEN @ + 10 ELSE 50,
          !.handled = TRUE,
          !.retries = @ + 1]
    /\ UNCHANGED <<pipelineVars, runs, alloc, cond, registry, elig, md, limiter, rec, review, recov, batching, ranking, planner, filter, parser, fills>>

(***************************************************************************)
(* The life of one symphony after an evaluation error: the task            *)
(* execute_symphony_algorithm, handle_algorithm_failure, the recovery      *)
(* check handle_algorithm_execution_failures and validate_all_symphonies.  *)
(***************************************************************************)
\* failures of the user that the recovery check counts
MaxFailures == 3

\* a symphony whose algorithm the validator accepts
ReviewTree == [children |-> 1, window |-> 20]

\* an active symphony that has not failed
ReviewInit ==
    /\ PipelineIdle
    /\ FillsIdle
    /\ ParserIdle
    /\ FilterIdle
    /\ PlannerIdle
    /\ RankingIdle
    /\ BatchingIdle
    /\ RecovIdle
    /\ RunsIdle
    /\ AllocIdle
    /\ CondIdle
    /\ RegistryIdle
    /\ EligIdle
    /\ MdIdle
    /\ LimiterIdle
    /\ RecIdle
    /\ ErrsIdle
    /\ review = [pc |-> "running",
                 symphony |-> [exists |-> TRUE, tree |-> ReviewTree,
                               is_active |-> TRUE, error_message |-> FALSE],
                 failed |-> FALSE, executed_again |-> FALSE,
                 handler_queued |-> FALSE, retry_queued |-> FALSE,
                 failures |-> 0, liquidations |-> 0]

\* execute_symphony_algorithm, lines 74-145 and 225-240.  The task loads
\* the symphony only when it is active; otherwise, and when the evaluation
\* has errors, it queues handle_algorithm_failure.
RunTask(state, outcome) ==
    IF ~state.symphony.is_active
    THEN [state EXCEPT !.handler_queued = TRUE]
    ELSE [state EXCEPT
             !.executed_again = @ \/ state.failed,
             !.failed = @ \/ outcome = "eval_error",
             !.handler_queued = @ \/ outcome = "eval_error"]

\* the daily scheduler dispatches the symphony, which it finds active,
\* and the task runs
ScheduledExecution ==
    /\ review.pc = "running"
    /\ review.symphony.is_active
    /\ ~review.handler_queued
    /\ \E outcome \in {"ok", "eval_error"} :
          review' = RunTask(review, outcome)
    /\ UNCHANGED <<pipelineVars, runs, alloc, cond, registry, elig, md, limiter, rec, errs, recov, batching, ranking, planner, filter, parser, fills>>

\* the run queued by the recovery check starts
RetryExecution ==
    /\ review.pc = "running"
    /\ review.retry_queued
    /\ \E outcome \in {"ok", "eval_error"} :
          review' = [RunTask(review, outcome) EXCEPT !.retry_queued = FALSE]
    /\ UNCHANGED <<pipelineVars, runs, alloc, cond, registry, elig, md, limiter, rec, errs, recov, batching, ranking, planner, filter, parser, fills>>

\* handle_algorithm_failure: liquidation, the failure is recorded, the
\* symphony is deactivated and its error message set
ReviewHandleAlgorithmFailure ==
    /\ review.pc = "running"
    /\ review.handler_queued
    /\ review' = [review EXCEPT
          !.handler_queued = FALSE,
          !.liquidations = IF @ < MaxFailures THEN @ + 1 ELSE @,
          !.failures = IF @ < MaxFailures THEN @ + 1 ELSE @,
          !.symphony.is_active = FALSE,
          !.symphony.error_message = TRUE]
    /\ UNCHANGED <<pipelineVars, runs, alloc, cond, registry, elig, md, limiter, rec, errs, recov, batching, ranking, planner, filter, parser, fills>>

\* validate_all_symphonies, for this symphony
ReviewValidateAllSymphonies ==
    /\ review.pc = "running"
    /\ \E outcome \in ValidateSymphonyOutcomes(review.symphony) :
          review' = [review EXCEPT !.symphony =
                LET sym == review.symphony
                IN IF outcome = "valid"
                   THEN IF ~sym.is_active /\ sym.error_message
                        THEN [sym EXCEPT !.is_active = TRUE, !.error_message = FALSE]
                        ELSE sym
                   ELSE IF sym.is_active /\ outcome = "critical"
                   THEN [sym EXCEPT !.is_active = FALSE, !.error_message = TRUE]
                   ELSE sym]
    /\ UNCHANGED <<pipelineVars, runs, alloc, cond, registry, elig, md, limiter, rec, errs, recov, batching, ranking, planner, filter, parser, fills>>

\* handle_algorithm_execution_failures for the recent failures of the
\* user: three or more liquidate and deactivate everything, fewer queue a
\* new run of every failed symphony that is active
ReviewHandleExecutionFailures ==
    /\ review.pc = "running"
    /\ review.failures > 0
    /\ review' =
          IF review.failures >= 3
          THEN [review EXCEPT
                   !.liquidations = IF @ < MaxFailures THEN @ + 1 ELSE @,
                   !.symphony.error_message = @ \/ review.symphony.is_active,
                   !.symphony.is_active = FALSE]
          ELSE IF review.symphony.is_active
          THEN [review EXCEPT !.retry_queued = TRUE]
          ELSE review
    /\ UNCHANGED <<pipelineVars, runs, alloc, cond, registry, elig, md, limiter, rec, errs, recov, batching, ranking, planner, filter, parser, fills>>

\* the failures are older than the 30 minutes the recovery check looks at
FailuresAgeOut ==
    /\ review.pc = "running"
    /\ review.failures > 0
    /\ review' = [review EXCEPT !.failures = 0]
    /\ UNCHANGED <<pipelineVars, runs, alloc, cond, registry, elig, md, limiter, rec, errs, recov, batching, ranking, planner, filter, parser, fills>>

\* the user reviews the failed symphony and switches it on or leaves it off
UserReview ==
    /\ review.pc = "running"
    /\ review.failed
    /\ ~review.handler_queued
    /\ \E is_active \in BOOLEAN :
          review' = [review EXCEPT !.failed = FALSE, !.executed_again = FALSE,
                                   !.symphony.is_active = is_active]
    /\ UNCHANGED <<pipelineVars, runs, alloc, cond, registry, elig, md, limiter, rec, errs, recov, batching, ranking, planner, filter, parser, fills>>

(***************************************************************************)
(* Recovery from market data failures: the periodic task                   *)
(* check_failed_executions with handle_market_data_failures, for the       *)
(* failures of one symphony.  The clock counts minutes.                    *)
(***************************************************************************)
\* 'error-recovery-check': timedelta(minutes=30)
RecoveryPeriod == 30
\* get_recent_failures(minutes=30, include_recovered=False)
RecentMinutes == 30

\* minutes between two instants of the clock, its last instant, and the
\* failure records of the symphony
MinutesPerStep == 10
MaxRecoverySteps == 7
MaxFailureRecords == 2

\* the records get_recent_failures answers at the instant t: not older
\* than RecentMinutes and not marked recovered
RecentFailures(records, t) ==
    {i \in 1..Len(records) :
        /\ t - records[i].created_at < RecentMinutes
        /\ ~records[i].recovery_attempted}

\* handle_market_data_failures(failures): when the service answers a
\* price, one new run is queued for every failure of the list; the
\* records are left as they are
HandleMarketDataFailures(records, failures, responsive) ==
    [i \in 1..Len(records) |->
        IF responsive /\ i \in failures
        THEN [records[i] EXCEPT !.retried = @ + 1]
        ELSE records[i]]

\* a symphony whose run of the window has not failed yet; the next check
\* is due at minute 0
RecovInit ==
    /\ PipelineIdle
    /\ FillsIdle
    /\ ParserIdle
    /\ FilterIdle
    /\ PlannerIdle
    /\ RankingIdle
    /\ BatchingIdle
    /\ RunsIdle
    /\ AllocIdle
    /\ CondIdle
    /\ RegistryIdle
    /\ EligIdle
    /\ MdIdle
    /\ LimiterIdle
    /\ RecIdle
    /\ ErrsIdle
    /\ ReviewIdle
    /\ recov = [pc |-> "running", clock |-> 0, due |-> 0, records |-> << >>,
                queued |-> 0]

\* a run of the symphony, the scheduled one or a queued retry, fails for
\* want of market data and its failure is recorded
RecovRunFails ==
    /\ recov.pc = "running"
    /\ Len(recov.records) < MaxFailureRecords
    /\ Len(recov.records) > 0 => recov.queued > 0
    /\ recov' = [recov EXCEPT
          !.queued = IF Len(recov.records) > 0 THEN @ - 1 ELSE @,
          !.records = Append(@, [created_at |-> recov.clock * MinutesPerStep,
                                 recovery_attempted |-> FALSE, retried |-> 0])]
    /\ UNCHANGED <<pipelineVars, runs, alloc, cond, registry, elig, md, limiter, rec, errs, review, batching, ranking, planner, filter, parser, fills>>

\* a queued retry runs and succeeds
RecovRetrySucceeds ==
    /\ recov.pc = "running"
    /\ recov.queued > 0
    /\ recov' = [recov EXCEPT !.queued = @ - 1]
    /\ UNCHANGED <<pipelineVars, runs, alloc, cond, registry, elig, md, limiter, rec, errs, review, batching, ranking, planner, filter, parser, fills>>

\* check_failed_executions: a worker takes the periodic task when it is
\* due or, the queue being busy, somewhat later
CheckFailedExecutions ==
    /\ recov.pc = "running"
    /\ recov.clock * MinutesPerStep >= recov.due
    /\ recov.clock * MinutesPerStep - recov.due < RecoveryPeriod
    /\ \E responsive \in BOOLEAN :
          LET t == recov.clock * MinutesPerStep
              failures == RecentFailures(recov.records, t)
          IN recov' = [recov EXCEPT
                !.due = @ + RecoveryPeriod,
                !.records = HandleMarketDataFailures(@, failures, responsive),
                !.queued = IF responsive THEN @ + Cardinality(failures) ELSE @]
    /\ UNCHANGED <<pipelineVars, runs, alloc, cond, registry, elig, md, limiter, rec, errs, review, batching, ranking, planner, filter, parser, fills>>

\* time passes
RecovTick ==
    /\ recov.pc = "running"
    /\ recov.clock < MaxRecoverySteps
    /\ recov.clock * MinutesPerStep - recov.due < RecoveryPeriod
    /\ recov' = [recov EXCEPT !.clock = @ + 1]
    /\ UNCHANGED <<pipelineVars, runs, alloc, cond, registry, elig, md, limiter, rec, errs, review, batching, ranking, planner, filter, parser, fills>>

(***************************************************************************)
(* The order in which execute_daily_symphonies draws its batches.          *)
(***************************************************************************)
\* the ids in ascending order
AscendingIds == [i \in 1..NSymphonies |-> i]

\* the ids with the row of k moved behind all the others
MovedLast(k) ==
    [i \in 1..NSymphonies |->
        IF i < k THEN i ELSE IF i < NSymphonies THEN i + 1 ELSE k]

\* what the query of lines 78-81 can answer for the active symphonies: it
\* has no order_by, so the rows come in the order of the table, which is
\* the order of the ids until a row is written again and moves behind the
\* others
QueryOrders == {AscendingIds} \cup {MovedLast(k) : k \in 1..NSymphonies}

\* the batch loop is not running
BatchingInit ==
    /\ PipelineIdle
    /\ FillsIdle
    /\ ParserIdle
    /\ FilterIdle
    /\ PlannerIdle
    /\ RankingIdle
    /\ RunsIdle
    /\ AllocIdle
    /\ CondIdle
    /\ RegistryIdle
    /\ EligIdle
    /\ MdIdle
    /\ LimiterIdle
    /\ RecIdle
    /\ ErrsIdle
    /\ ReviewIdle
    /\ RecovIdle
    /\ batching = [pc |-> "query", active |-> << >>, eligible |-> << >>,
                   next |-> 0, dispatched |-> << >>]

\* lines 78-81: the active symphonies
BatchingQuery ==
    /\ batching.pc = "query"
    /\ \E rows \in QueryOrders :
          batching' = [batching EXCEPT !.pc = "eligibility", !.active = rows]
    /\ UNCHANGED <<pipelineVars, runs, alloc, cond, registry, elig, md, limiter, rec, errs, review, recov, ranking, planner, filter, parser, fills>>

\* lines 90-102: the eligible ones, in the order of the rows
BatchingEligibility ==
    /\ batching.pc = "eligibility"
    /\ \E is_eligible \in [1..NSymphonies -> BOOLEAN] :
          batching' = [batching EXCEPT
                !.pc = "dispatch",
                !.eligible = SelectSeq(batching.active, LAMBDA s : is_eligible[s])]
    /\ UNCHANGED <<pipelineVars, runs, alloc, cond, registry, elig, md, limiter, rec, errs, review, recov, ranking, planner, filter, parser, fills>>

\* lines 139-153: one pass of the batch loop inside the window
BatchingDispatch ==
    /\ batching.pc = "dispatch"
    /\ batching.next < Len(batching.eligible)
    /\ batching' = [batching EXCEPT
          !.dispatched = Append(@, Batch(batching.eligible, batching.next)),
          !.next = @ + BatchSize(batching.eligible)]
    /\ UNCHANGED <<pipelineVars, runs, alloc, cond, registry, elig, md, limiter, rec, errs, review, recov, ranking, planner, filter, parser, fills>>

(***************************************************************************)
(* The ranking step of the evaluator: _execute_ranking_step.               *)
(***************************************************************************)
\* the tickers of the ranking model and their place in lexical order
RankTickers == {"AAA", "BBB", "CCC"}
TickerOrder == [t \in RankTickers |-> IF t = "AAA" THEN 1 ELSE IF t = "BBB" THEN 2 ELSE 3]

\* the scores an asset can have
MaxScore == 3

\* x sorts strictly before y
SortsBefore(x, y, direction) ==
    IF direction = "descending" THEN x.score > y.score ELSE x.score < y.score

\* sorted(items, key=metric, reverse=...): the sort is stable, in both
\* directions items with equal keys stay in the order they came in
RECURSIVE InsertStable(_, _, _)
InsertStable(sorted, x, direction) ==
    IF sorted = << >> THEN <<x>>
    ELSE IF SortsBefore(x, Head(sorted), direction) THEN <<x>> \o sorted
    ELSE <<Head(sorted)>> \o InsertStable(Tail(sorted), x, direction)

RECURSIVE Sorted(_, _, _)
Sorted(items, direction, done) ==
    IF items = << >> THEN done
    ELSE Sorted(Tail(items), direction, InsertStable(done, Head(items), direction))

\* _execute_ranking_step: the first `limit` items of the sorted list
ExecuteRankingStep(asset_data_map, step) ==
    LET sorted_assets == Sorted(asset_data_map, step.direction, << >>)
    IN SubSeq(sorted_assets, 1, Min(step.limit, Len(sorted_assets)))

\* the assets in every order a dict can hold them, with their scores
RankingChoices ==
    {m \in [1..Cardinality(RankTickers) -> [symbol : RankTickers, score : 1..MaxScore]] :
        \A i, j \in DOMAIN m : i # j => m[i].symbol # m[j].symbol}

\* an asset map and a ranking step that has not run
RankingInit ==
    /\ PipelineIdle
    /\ FillsIdle
    /\ ParserIdle
    /\ FilterIdle
    /\ PlannerIdle
    /\ RunsIdle
    /\ AllocIdle
    /\ CondIdle
    /\ RegistryIdle
    /\ EligIdle
    /\ MdIdle
    /\ LimiterIdle
    /\ RecIdle
    /\ ErrsIdle
    /\ ReviewIdle
    /\ RecovIdle
    /\ BatchingIdle
    /\ \E m \in RankingChoices, limit \in 0..Cardinality(RankTickers),
          direction \in {"descending", "ascending"} :
          ranking = [pc |-> "ready", asset_data_map |-> m,
                     step |-> [limit |-> limit, direction |-> direction],
                     ranked_assets |-> << >>]

\* the step runs
RankingRun ==
    /\ ranking.pc = "ready"
    /\ ranking' = [ranking EXCEPT
          !.pc = "ranked",
          !.ranked_assets = ExecuteRankingStep(ranking.asset_data_map, ranking.step)]
    /\ UNCHANGED <<pipelineVars, runs, alloc, cond, registry, elig, md, limiter, rec, errs, review, recov, batching, planner, filter, parser, fills>>

(***************************************************************************)
(* From the evaluator's allocations to the orders: _generate_allocations,  *)
(* the order planner and the submission loop of execute_symphony_trades.   *)
(***************************************************************************)
\* prices of the planning model
PlanPrice == [s \in Symbols |-> IF s = "AAA" THEN 10 ELSE 5]

\* share counts a position of the planning model can have
PlanQtyChoices == {0, 1, 50}

\* the broker's positions as _get_current_positions answers them
PlanPositions(held) ==
    LET syms == SelectSeq(SymbolSeq, LAMBDA s : held[s] > 0)
    IN [i \in DOMAIN syms |->
          [symbol |-> syms[i], quantity |-> held[syms[i]],
           current_price |-> PlanPrice[syms[i]],
           market_value |-> held[syms[i]] * PlanPrice[syms[i]]]]

\* the weighted assets the evaluator ends with: one asset, or two at 1/2
PlanWeightChoices ==
    {[den |-> 1, assets |-> <<[symbol |-> s, num |-> 1]>>] : s \in Symbols}
    \cup {[den |-> 2, assets |-> <<[symbol |-> "AAA", num |-> 1],
                                   [symbol |-> "BBB", num |-> 1]>>]}

\* an account, its positions and the allocations of an evaluation
PlannerInit ==
    /\ PipelineIdle
    /\ FillsIdle
    /\ ParserIdle
    /\ FilterIdle
    /\ RunsIdle
    /\ AllocIdle
    /\ CondIdle
    /\ RegistryIdle
    /\ EligIdle
    /\ MdIdle
    /\ LimiterIdle
    /\ RecIdle
    /\ ErrsIdle
    /\ ReviewIdle
    /\ RecovIdle
    /\ BatchingIdle
    /\ RankingIdle
    /\ \E c \in {0, 500}, held \in [Symbols -> PlanQtyChoices],
          st \in PlanWeightChoices, cash_buffer \in {0, AllocScale \div 2} :
          planner = [pc |-> "ready",
                     current_positions |-> PlanPositions(held),
                     total_equity |-> c + MarketValue(PlanPositions(held)),
                     target_allocations |->
                        GenerateAllocationsFor(st,
                            [DefaultAllocation EXCEPT !.cash_buffer = cash_buffer]),
                     orders |-> << >>, submitted |-> << >>]

\* the plan is computed from the equity, the positions and the allocations
PlannerPlan ==
    /\ planner.pc = "ready"
    /\ planner' = [planner EXCEPT
          !.pc = "submitting",
          !.orders = PlanOrders(planner.total_equity, planner.current_positions,
                                planner.target_allocations, AllocScale)]
    /\ UNCHANGED <<pipelineVars, runs, alloc, cond, registry, elig, md, limiter, rec, errs, review, recov, batching, ranking, filter, parser, fills>>

\* one turn of the submission loop: every order of the plan is submitted
PlannerSubmit ==
    /\ planner.pc = "submitting"
    /\ Len(planner.submitted) < Len(planner.orders)
    /\ planner' = [planner EXCEPT
          !.submitted = Append(@, planner.orders[Len(planner.submitted) + 1])]
    /\ UNCHANGED <<pipelineVars, runs, alloc, cond, registry, elig, md, limiter, rec, errs, review, recov, batching, ranking, filter, parser, fills>>

(***************************************************************************)
(* Validation of a Filter step: the schema's validate_select_n, then       *)
(* _validate_execution_tree.                                               *)
(***************************************************************************)
\* the largest number of children of a Filter step
MaxChildren == 3

\* the values of select_n: an integer, a string of digits with that
\* value, the string 'all', another string
SelectNChoices ==
    [kind : {"int", "digits"}, n : -1..(MaxChildren + 1)]
    \cup {[kind |-> "all", n |-> 0], [kind |-> "word", n |-> 0]}

\* int(v) raises ValueError
IntRaises(v) == v.kind \in {"all", "word"}

\* FilterStep.validate_select_n: a string must be accepted by int()
ValidateSelectN(v) ==
    IF v.kind # "int" /\ IntRaises(v)
    THEN [raised |-> TRUE, by |-> "schema", warnings |-> {}]
    ELSE [raised |-> FALSE, by |-> "none", warnings |-> {}]

\* _validate_execution_tree for a Filter node
ValidateFilterNode(v, children) ==
    LET empty == IF children = 0 THEN {"no assets to filter"} ELSE {}
    IN IF v.kind # "int" /\ IntRaises(v)
       THEN IF v.kind # "all"
            THEN [raised |-> TRUE, by |-> "validator", warnings |-> empty]
            ELSE [raised |-> FALSE, by |-> "none", warnings |-> empty]
       ELSE [raised |-> FALSE, by |-> "none",
             warnings |-> empty \cup (IF v.n > children
                                      THEN {"selects more than its children"}
                                      ELSE {})]

\* parsing into the schema, then validating the tree
ValidateFilterStep(v, children) ==
    IF ValidateSelectN(v).raised THEN ValidateSelectN(v)
    ELSE ValidateFilterNode(v, children)

\* a Filter step that has not been validated
FilterInit ==
    /\ PipelineIdle
    /\ FillsIdle
    /\ ParserIdle
    /\ RunsIdle
    /\ AllocIdle
    /\ CondIdle
    /\ RegistryIdle
    /\ EligIdle
    /\ MdIdle
    /\ LimiterIdle
    /\ RecIdle
    /\ ErrsIdle
    /\ ReviewIdle
    /\ RecovIdle
    /\ BatchingIdle
    /\ RankingIdle
    /\ PlannerIdle
    /\ \E v \in SelectNChoices, children \in 0..MaxChildren :
          filter = [pc |-> "parsed", select_n |-> v, children |-> children,
                    outcome |-> [raised |-> FALSE, by |-> "none", warnings |-> {}]]

\* the step is validated
FilterValidate ==
    /\ filter.pc = "parsed"
    /\ filter' = [filter EXCEPT
          !.pc = "validated",
          !.outcome = ValidateFilterStep(filter.select_n, filter.children)]
    /\ UNCHANGED <<pipelineVars, runs, alloc, cond, registry, elig, md, limiter, rec, errs, review, recov, batching, ranking, planner, parser, fills>>

(***************************************************************************)
(* The symphony parser: parse_json builds the typed step of a JSON object, *)
(* to_json writes it back.  A JSON value is a record [t, v]; a JSON object *)
(* maps every key of ParserKeys to a value, JAbsent where it has no such   *)
(* key.  The typed step maps every field of its class to a value.          *)
(***************************************************************************)
JAbsent == [t |-> "absent", v |-> 0]
JNull == [t |-> "null", v |-> 0]
JInt == [t |-> "int", v |-> 2]
\* the string "2"
JDigits == [t |-> "digits", v |-> 2]
\* a string that int() does not accept
JWord == [t |-> "word", v |-> 0]
JTrue == [t |-> "bool", v |-> 1]
JObject == [t |-> "object", v |-> 0]
JList == [t |-> "list", v |-> 0]
\* Python's None
PyNone == [t |-> "none", v |-> 0]

\* the step types of STEP_TYPE_MAPPING that are modelled
ParserSteps == {"asset", "filter", "if-child", "wt-cash-equal"}

\* the fields of the schema classes that are modelled
ParserFields ==
    {"children", "ticker", "select_n", "sort_by_fn_params",
     "is_else_condition", "lhs_fn_params", "lhs_val", "window_days"}

\* the fields of the class of a step type
StepFields(step) ==
    {"children"} \cup
    CASE step = "asset" -> {"ticker"}
      [] step = "filter" -> {"select_n", "sort_by_fn_params"}
      [] step = "if-child" -> {"is_else_condition", "lhs_fn_params", "lhs_val"}
      [] OTHER -> {"window_days"}

\* the key a field is read from and written to: its alias where it has one
FieldAlias(f) ==
    CASE f = "is_else_condition" -> "is-else-condition?"
      [] f = "lhs_fn_params" -> "lhs-fn-params"
      [] f = "lhs_val" -> "lhs-val"
      [] f = "window_days" -> "window-days"
      [] OTHER -> f

\* the keys of a JSON object
ParserKeys ==
    {FieldAlias(f) : f \in ParserFields} \cup {"select-n", "sort-by-fn-params"}

\* _convert_field_names: the hyphenated keys of a Filter step are renamed
ConvertFieldNames(data) ==
    [k \in ParserKeys |->
        CASE k = "select_n" /\ data["select-n"] # JAbsent -> data["select-n"]
          [] k = "sort_by_fn_params" /\ data["sort-by-fn-params"] # JAbsent ->
                data["sort-by-fn-params"]
          [] k \in {"select-n", "sort-by-fn-params"} -> JAbsent
          [] OTHER -> data[k]]

ParserInvalid == [ok |-> FALSE, val |-> JAbsent]

ParserValid(val) == [ok |-> TRUE, val |-> val]

\* the validation of the value given for a field: its default where the key
\* is absent, None where an Optional field is given null, the value coerced
\* to the type of the field otherwise
ValidateField(f, given) ==
    CASE f = "children" ->
            \* Optional[List] = Field(default_factory=list)
            IF given = JAbsent THEN ParserValid(JList)
            ELSE IF given = JNull THEN ParserValid(PyNone)
            ELSE IF given = JList THEN ParserValid(JList) ELSE ParserInvalid
      [] f = "ticker" ->
            \* str, required
            IF given = JWord THEN ParserValid(JWord) ELSE ParserInvalid
      [] f = "select_n" ->
            \* Union[int, str], required, validate_select_n
            IF given \in {JInt, JDigits} THEN ParserValid(JInt) ELSE ParserInvalid
      [] f = "sort_by_fn_params" ->
            \* Dict = Field(default_factory=dict)
            IF given \in {JAbsent, JObject} THEN ParserValid(JObject)
            ELSE ParserInvalid
      [] f = "is_else_condition" ->
            \* bool, required
            IF given = JTrue THEN ParserValid(JTrue) ELSE ParserInvalid
      [] f = "lhs_fn_params" ->
            \* Optional[Dict] = Field(default_factory=dict)
            IF given = JAbsent THEN ParserValid(JObject)
            ELSE IF given = JNull THEN ParserValid(PyNone)
            ELSE IF given = JObject THEN ParserValid(JObject) ELSE ParserInvalid
      [] f = "lhs_val" ->
            \* Optional[str] = None
            IF given \in {JAbsent, JNull} THEN ParserValid(PyNone)
            ELSE IF given = JWord THEN ParserValid(JWord) ELSE ParserInvalid
      [] OTHER ->
            \* window_days: Optional[Union[int, str]] = None
            IF given \in {JAbsent, JNull} THEN ParserValid(PyNone)
            ELSE IF given \in {JInt, JDigits} THEN ParserValid(JInt)
            ELSE IF given = JWord THEN ParserValid(JWord) ELSE ParserInvalid

\* model_class(**data): every field of the class from the key of its alias
ModelInit(step, data) ==
    LET r == [f \in ParserFields |->
                 IF f \in StepFields(step)
                 THEN ValidateField(f, data[FieldAlias(f)])
                 ELSE ParserValid(JAbsent)]
    IN [ok |-> \A f \in ParserFields : r[f].ok,
        step |-> step,
        fields |-> [f \in ParserFields |-> r[f].val]]

\* _parse_step
ParseStep(step, data) == ModelInit(step, ConvertFieldNames(data))

\* symphony.dict(by_alias=True, exclude_none=True) and json.dumps: each
\* field under its alias, the fields that are None left out
ToJson(symphony) ==
    [k \in ParserKeys |->
        IF \E f \in StepFields(symphony.step) : FieldAlias(f) = k
        THEN LET f == CHOOSE g \in StepFields(symphony.step) : FieldAlias(g) = k
             IN IF symphony.fields[f] = PyNone THEN JAbsent
                ELSE symphony.fields[f]
        ELSE JAbsent]

\* the values a JSON input gives for a key
ParserGiven(k) ==
    CASE k \in {"children"} -> {JAbsent, JNull, JList}
      [] k = "ticker" -> {JAbsent, JWord}
      [] k \in {"select_n", "select-n"} -> {JAbsent, JInt, JDigits, JWord}
      [] k = "sort_by_fn_params" -> {JAbsent, JNull, JObject}
      [] k = "sort-by-fn-params" -> {JAbsent, JObject}
      [] k = "is-else-condition?" -> {JAbsent, JTrue}
      [] k = "lhs-fn-params" -> {JAbsent, JNull, JObject}
      [] k = "lhs-val" -> {JAbsent, JNull, JWord}
      [] OTHER -> {JAbsent, JNull, JInt, JDigits, JWord}

\* the keys a JSON input of a step type may hold
ParserInputKeys(step) ==
    {FieldAlias(f) : f \in StepFields(step)} \cup
    (IF step = "filter" THEN {"select-n", "sort-by-fn-params"} ELSE {})

\* the JSON inputs of a step type
ParserInputs(step) ==
    LET given == {d \in [ParserInputKeys(step) ->
                            {JAbsent, JNull, JInt, JDigits, JWord, JTrue,
                             JObject, JList}] :
                     \A k \in ParserInputKeys(step) : d[k] \in ParserGiven(k)}
    IN {[k \in ParserKeys |->
            IF k \in ParserInputKeys(step) THEN d[k] ELSE JAbsent] : d \in given}

\* a JSON input that has not been parsed
ParserInit ==
    /\ PipelineIdle
    /\ FillsIdle
    /\ RunsIdle
    /\ AllocIdle
    /\ CondIdle
    /\ RegistryIdle
    /\ EligIdle
    /\ MdIdle
    /\ LimiterIdle
    /\ RecIdle
    /\ ErrsIdle
    /\ ReviewIdle
    /\ RecovIdle
    /\ BatchingIdle
    /\ RankingIdle
    /\ PlannerIdle
    /\ FilterIdle
    /\ \E step \in ParserSteps :
          \E data \in ParserInputs(step) :
             parser = [pc |-> "input", step |-> step, data |-> data,
                       symphony |-> ModelInit(step, [k \in ParserKeys |-> JAbsent]),
                       json |-> [k \in ParserKeys |-> JAbsent],
                       again |-> ModelInit(step, [k \in ParserKeys |-> JAbsent])]

\* parse_json of the input
ParseJson ==
    /\ parser.pc = "input"
    /\ LET symphony == ParseStep(parser.step, parser.data)
       IN parser' = [parser EXCEPT
             !.pc = IF symphony.ok THEN "parsed" ELSE "rejected",
             !.symphony = symphony]
    /\ UNCHANGED <<pipelineVars, runs, alloc, cond, registry, elig, md, limiter, rec, errs, review, recov, batching, ranking, planner, filter, fills>>

\* to_json of the parsed step
ParserToJson ==
    /\ parser.pc = "parsed"
    /\ parser' = [parser EXCEPT !.pc = "serialised",
                                !.json = ToJson(parser.symphony)]
    /\ UNCHANGED <<pipelineVars, runs, alloc, cond, registry, elig, md, limiter, rec, errs, review, recov, batching, ranking, planner, filter, fills>>

\* parse_json of the output of to_json
ParseJsonAgain ==
    /\ parser.pc = "serialised"
    /\ parser' = [parser EXCEPT !.pc = "reparsed",
                                !.again = ParseStep(parser.step, parser.json)]
    /\ UNCHANGED <<pipelineVars, runs, alloc, cond, registry, elig, md, limiter, rec, errs, review, recov, batching, ranking, planner, filter, fills>>

ParserNext ==
    \/ ParseJson
    \/ ParserToJson
    \/ ParseJsonAgain

(***************************************************************************)
(* One order from its submission on: record_trade, the polling loop of     *)
(* _wait_for_order_fills and the passes of reconcile_positions that run    *)
(* meanwhile on another worker.  Symphony 1 buys FillQty shares of AAA.    *)
(***************************************************************************)
\* the quantity of the order
FillQty == 2
\* passes of reconcile_positions that are followed
MaxReconciles == 2

\* create_or_update_position: the quantity is added to the row of the
\* symphony for the symbol, which is created when there is none
CreateOrUpdatePosition(rows, symphony_id, symbol, quantity) ==
    IF rows[symphony_id, symbol].row
    THEN [rows EXCEPT ![symphony_id, symbol].quantity = @ + quantity]
    ELSE [rows EXCEPT ![symphony_id, symbol] =
             [row |-> TRUE, is_open |-> TRUE, quantity |-> quantity]]

\* the total quantity of the user's rows for a symbol
LocalQuantity(rows, symbol) ==
    SumSeq([i \in 1..Cardinality(Owners) |->
               IF (i - 1) \in RowsOf(rows, symbol)
               THEN rows[i - 1, symbol].quantity ELSE 0])

\* the rows agree with the broker; no order yet
FillsInit ==
    /\ PipelineIdle
    /\ RunsIdle
    /\ AllocIdle
    /\ CondIdle
    /\ RegistryIdle
    /\ EligIdle
    /\ MdIdle
    /\ LimiterIdle
    /\ RecIdle
    /\ ErrsIdle
    /\ ReviewIdle
    /\ RecovIdle
    /\ BatchingIdle
    /\ RankingIdle
    /\ PlannerIdle
    /\ FilterIdle
    /\ ParserIdle
    /\ \E held \in [Syms -> 0..1] :
          fills = [pc |-> "submit",
                   before |-> held[1] + held[2],
                   broker |-> [s \in Symbols |->
                                  IF s = "AAA" THEN held[1] + held[2] ELSE 0],
                   order |-> "none", trade |-> "none", polls |-> 0,
                   reconciles |-> 0,
                   rows |-> [k \in Owners \X Symbols |->
                                IF k[1] # 0 /\ k[2] = "AAA" /\ held[k[1]] > 0
                                THEN [row |-> TRUE, is_open |-> TRUE,
                                      quantity |-> held[k[1]]]
                                ELSE NoRow]]

\* submit_order, and record_trade with status "pending": no row changes
FillsSubmit ==
    /\ fills.pc = "submit"
    /\ fills' = [fills EXCEPT !.pc = "wait", !.order = "new",
                              !.trade = "pending"]
    /\ UNCHANGED <<pipelineVars, runs, alloc, cond, registry, elig, md, limiter, rec, errs, review, recov, batching, ranking, planner, filter, parser>>

\* the broker fills the order
FillsBrokerFills ==
    /\ fills.order = "new"
    /\ fills' = [fills EXCEPT !.order = "filled",
                              !.broker["AAA"] = @ + FillQty]
    /\ UNCHANGED <<pipelineVars, runs, alloc, cond, registry, elig, md, limiter, rec, errs, review, recov, batching, ranking, planner, filter, parser>>

\* one iteration of the polling loop
FillsPoll ==
    /\ fills.pc = "wait"
    /\ fills.polls < MaxPolls
    /\ IF fills.trade # "executed" /\ fills.order = "filled"
       THEN fills' = [fills EXCEPT
               !.pc = "done", !.trade = "executed",
               !.rows = CreateOrUpdatePosition(fills.rows, 1, "AAA", FillQty)]
       ELSE fills' = [fills EXCEPT !.polls = @ + 1]
    /\ UNCHANGED <<pipelineVars, runs, alloc, cond, registry, elig, md, limiter, rec, errs, review, recov, batching, ranking, planner, filter, parser>>

\* the timeout of the polling loop has elapsed
FillsTimeout ==
    /\ fills.pc = "wait"
    /\ fills.polls >= MaxPolls
    /\ fills' = [fills EXCEPT !.pc = "done"]
    /\ UNCHANGED <<pipelineVars, runs, alloc, cond, registry, elig, md, limiter, rec, errs, review, recov, batching, ranking, planner, filter, parser>>

\* a pass of reconcile_positions over the user
FillsReconcile ==
    /\ fills.reconciles < MaxReconciles
    /\ \E pick \in [Symbols -> Owners] :
          /\ \A symbol \in Symbols :
                OpenRowsOf(fills.rows, symbol) # {} =>
                    pick[symbol] \in OpenRowsOf(fills.rows, symbol)
          /\ fills' = [fills EXCEPT
                !.reconciles = @ + 1,
                !.rows = ForEachSymbol(fills.rows, SymbolSeq, fills.broker,
                                       pick, FALSE)]
    /\ UNCHANGED <<pipelineVars, runs, alloc, cond, registry, elig, md, limiter, rec, errs, review, recov, batching, ranking, planner, filter, parser>>

FillsNext ==
    \/ FillsSubmit
    \/ FillsBrokerFills
    \/ FillsPoll
    \/ FillsTimeout
    \/ FillsReconcile

vars == <<tradeVars, outsideTrade>>

TradeNext ==
    \/ TradeStart
    \/ TradeStartRaise
    \/ TradeSubmit
    \/ TradeSubmitDone
    \/ WaitPoll
    \/ WaitTimeout
    \/ TradeWaitRaise
    \/ HandleSymphonyError
    \/ LiqSubmit
    \/ LiqSubmitDone
    \/ SymphonyErrorReturn
    \/ SymphonyErrorLiquidationFailed

SpecTrade == TradeInit /\ [][TradeNext]_vars

\* the same, with the polling loop scheduled: the event loop resumes the
\* coroutine after each get_order and each sleep
SpecTradeFair ==
    TradeInit /\ [][TradeNext]_vars /\ WF_vars(WaitPoll \/ WaitTimeout)

(***************************************************************************)
(* The same call of execute_symphony_trades with the wall clock running:   *)
(* the call starts at the beginning of the window or in its last minute.   *)
(***************************************************************************)
WindowInit ==
    /\ pc = "trade_start"
    /\ hasToken = TRUE
    /\ cash \in CashChoices \ {0}
    /\ positions \in {p \in PositionChoices({0, 10}) :
                         /\ \A sym \in Symbols : p[<<2, sym>>] = 0
                         /\ p[<<1, "BBB">>] = 0}
    /\ symStatus = [s \in Syms |-> "active"]
    /\ targets \in TargetChoices
    /\ account = NoAccount
    /\ plan = << >>
    /\ idx = 1
    /\ brokerOrders = << >>
    /\ trades = << >>
    /\ waitSet = {}
    /\ polls = 0
    /\ liqCaller = "none"
    /\ liqQueue = << >>
    /\ lastError = [s \in Syms |-> "none"]
    /\ runSym = 1
    /\ TaskIdle
    /\ CriticalIdle
    /\ sched = NoSched
    /\ marketOpen = FALSE
    /\ now \in {WindowStart, Deadline - 1}
    /\ SideIdle

WindowNext ==
    \/ TradeTick
    \/ TradeStart
    \/ TradeStartRaise
    \/ TradeSubmit
    \/ TradeSubmitDone
    \/ WaitPoll
    \/ WaitTimeout
    \/ TradeWaitRaise
    \/ HandleSymphonyError
    \/ LiqSubmit
    \/ LiqSubmitDone
    \/ SymphonyErrorReturn
    \/ SymphonyErrorLiquidationFailed

SpecWindow == WindowInit /\ [][WindowNext]_vars

(***************************************************************************)
(* Specification of one run of execute_symphony_algorithm.                 *)
(***************************************************************************)
Next ==
    \/ TaskLoad
    \/ TaskEvaluate
    \/ TaskCheckErrors
    \/ TaskPlan
    \/ TaskExecuteTrades
    \/ TaskFinish
    \/ TaskExcept
    \/ HandleAlgorithmFailure
    \/ HandleTradeFailure
    \/ LiqSubmit
    \/ LiqSubmitDone
    \/ WaitPoll
    \/ WaitTimeout
    \/ AlgorithmFailureDeactivate
    \/ AlgorithmFailureExcept

Spec == TaskInit /\ [][Next]_vars

(***************************************************************************)
(* Specification of one call of handle_critical_error.                     *)
(***************************************************************************)
CriticalNext ==
    \/ CriticalStart
    \/ CriticalNextSymphony
    \/ CriticalReturn
    \/ HandleSymphonyError
    \/ LiqSubmit
    \/ LiqSubmitDone
    \/ WaitPoll
    \/ WaitTimeout
    \/ SymphonyErrorReturn
    \/ SymphonyErrorLiquidationFailed

SpecCritical == CriticalInit /\ [][CriticalNext]_vars

(***************************************************************************)
(* Specification of one run of execute_daily_symphonies.                   *)
(***************************************************************************)
SchedNext ==
    \/ Tick
    \/ SchedStart
    \/ SchedCheckEligibility
    \/ SchedEligibilityDone
    \/ SchedDispatch
    \/ SchedDispatchDone
    \/ SchedCollect
    \/ SchedReturn

SpecSched == SchedInit /\ [][SchedNext]_vars

(***************************************************************************)
(* Specification of the runs of the task on the worker pool.               *)
(***************************************************************************)
RunsNext ==
    \/ RunsDispatchScheduled
    \/ RunsDispatchUser
    \/ RunsDispatchRetry
    \/ RunStart
    \/ RunAdvance
    \/ RunFail

SpecRuns == RunsInit /\ [][RunsNext]_vars

(***************************************************************************)
(* Specification of one evaluation.                                        *)
(***************************************************************************)
AllocNext ==
    \/ AllocWeighting
    \/ AllocGenerate

SpecAlloc == AllocInit /\ [][AllocNext]_vars

\* the result holds the cash entry alone, with weight 1
OnlyCash(result) ==
    /\ Len(result) = 1
    /\ result[1].symbol = "CASH"
    /\ result[1].pct = AllocScale

\* C16: every evaluation that completes without error returns weights
\* that each lie in [0, 1] and sum to 1 within 10^-3, or exactly {cash: 1}
C16_WeightsSumToOne ==
    alloc.pc = "done" =>
        \/ /\ \A i \in DOMAIN alloc.result :
                 alloc.result[i].pct >= 0 /\ alloc.result[i].pct <= AllocScale
           /\ Abs(SumSeq([i \in DOMAIN alloc.result |-> alloc.result[i].pct])
                  - AllocScale) * 1000 <= AllocScale
        \/ OnlyCash(alloc.result)

\* C17: when no asset remains after the cash buffer and the min/max
\* allocation clips, the result is exactly {cash: 1}
C17_NothingInvestableGivesCash ==
    (alloc.pc = "done"
     /\ \A i \in DOMAIN alloc.result : alloc.result[i].symbol = "CASH")
        => OnlyCash(alloc.result)

(***************************************************************************)
(* Specification of the evaluation of one condition.                       *)
(***************************************************************************)
SpecCond == CondInit /\ [][CondEvaluate]_vars

\* the metric the condition refers to has no value: the symbol's data is
\* missing, or the indicator is neither stored nor one that can be computed
MetricMissing ==
    \/ ~cond.asset_data_map[cond.condition.symbol].present
    \/ /\ ~cond.asset_data_map[cond.condition.symbol].indicators[cond.condition.indicator].has
       /\ cond.condition.indicator # "rsi"

\* C18: a condition on a metric whose value is missing evaluates to false;
\* the missing value is never treated as the number 0
C18_MissingMetricIsFalse ==
    (cond.pc = "done" /\ MetricMissing) => cond.result = FALSE

(***************************************************************************)
(* Specification of the symphonies table.                                  *)
(***************************************************************************)
RegistryNext ==
    \/ CreateSymphony
    \/ UpdateSymphony
    \/ ToggleSymphonyActive
    \/ ValidateAllSymphonies
    \/ DeactivateFailedSymphony

SpecRegistry == RegistryInit /\ [][RegistryNext]_vars

\* the structure and the metric window of the tree are what validation
\* requires
TreeIsValid(tree) ==
    /\ tree.children >= 1
    /\ tree.window >= MinWindow
    /\ tree.window <= MaxWindow

\* C19: every active symphony has a tree that passes validation
C19_ActiveImpliesValidated ==
    \A s \in Syms :
        (registry.symphonies[s].exists /\ registry.symphonies[s].is_active)
            => TreeIsValid(registry.symphonies[s].tree)

\* C20: a tree whose metric window is outside [1, 252] is rejected by
\* validation with a Bounds error
C20_WindowOutOfBoundsRejected ==
    (/\ registry.validation.called
     /\ registry.validation.tree.children >= 1
     /\ \/ registry.validation.tree.window < MinWindow
        \/ registry.validation.tree.window > MaxWindow)
        => (registry.validation.raised /\ registry.validation.kind = "Bounds")

(***************************************************************************)
(* Specification of the selection of one symphony.                         *)
(***************************************************************************)
EligNext ==
    \/ EligCheck
    \/ EligShouldRebalance

SpecElig == EligInit /\ [][EligNext]_vars

\* the symphony was never executed, or last on the latest Monday before
\* today
CleanHistory ==
    \/ ~elig.symphony.last_executed.has
    \/ /\ DateOf(elig.symphony.last_executed.ord).weekday = 0
       /\ elig.symphony.last_executed.ord < elig.today.ord
       /\ elig.today.ord - elig.symphony.last_executed.ord <= 7

\* C21: a weekly symphony with a clean last-executed history is selected
\* for execution on a date if and only if the date is a Monday
C21_WeeklyIffMonday ==
    (/\ elig.pc \in {"selected", "skipped"}
     /\ elig.symphony.rebalance = "weekly"
     /\ CleanHistory)
        => (elig.eligible <=> elig.today.weekday = 0)

\* the symphony is rebalanced: the scheduler selected it and the evaluator
\* decided to rebalance
Triggered == elig.pc = "done" /\ elig.should_rebalance

\* C22: a threshold symphony that holds positions is rebalanced if and
\* only if the largest deviation over the union of holdings and targets
\* is strictly greater than the corridor width
C22_TriggerIffDriftOverCorridor ==
    (/\ elig.pc \in {"skipped", "done"}
     /\ elig.symphony.rebalance = "none"
     /\ elig.positions # << >>)
        => (Triggered <=>
               CalculateMaxDrift(elig.positions, DriftTargets)
                  > elig.symphony.corridor * MarketValue(elig.positions))

(***************************************************************************)
(* Specification of the market data service.                               *)
(***************************************************************************)
MdNext ==
    \/ GetQuote
    \/ GetHistoricalData
    \/ MdTick

SpecMd == MdInit /\ [][MdNext]_vars

\* C23: a Quote(symbol) call made within the 60 s TTL of an earlier call
\* that obtained the quote from a provider is answered from the cache and
\* calls no provider
C23_QuoteWithinTtlFromCache ==
    (/\ md.last.data_type = "quote"
     /\ md.last.prior.has
     /\ md.last.at - md.last.prior.at < TtlQuote)
        => (md.last.from = "cache" /\ md.last.called = << >>)

\* C24: on a cache miss the providers are tried in priority order, the
\* first success ends the attempts, and only when all have failed the call
\* fails, with a data-unavailable error that names the last provider's error
C24_ProvidersInOrder ==
    (md.last.data_type = "quote" /\ md.last.from # "cache")
        => /\ md.last.called = SubSeq(QuoteSources, 1, Len(md.last.called))
           /\ md.last.from # "none" =>
                 md.last.from = md.last.called[Len(md.last.called)]
           /\ md.last.from = "none" =>
                 /\ md.last.called = QuoteSources
                 /\ md.last.raised = "MarketDataError"
                 /\ md.last.cause = QuoteSources[Len(QuoteSources)]

\* C26: a daily Historical result is written to the cache with a TTL of
\* one hour, so that it cannot be served later than that
C26_DailyHistoricalTtlOneHour ==
    /\ (md.lastSet.called /\ md.lastSet.data_type = "historical")
          => md.lastSet.ttl_seconds = TtlDaily
    /\ \A e \in md.cache : e.key[2] = "historical" => e.ttl <= TtlDaily

(***************************************************************************)
(* Specification of one provider client under concurrent requests.         *)
(***************************************************************************)
LimiterNext ==
    \/ RateLimitEnter
    \/ RateLimitWake
    \/ RateLimitPause

SpecLimiter == LimiterInit /\ [][LimiterNext]_vars

\* the requests sent in the window that ends with the request number i
SentInWindow(i) ==
    {j \in 1..Len(limiter.sent) :
        /\ limiter.sent[j] <= limiter.sent[i]
        /\ limiter.sent[i] - limiter.sent[j] < RateLimits[limiter.provider].RATE_WINDOW}

\* C25: in every sliding rate window the number of requests sent to a
\* provider is at most the provider's limit, also when many coroutines
\* pass through the limiter at the same time
C25_RateWindowNeverExceeded ==
    limiter.pc = "running" =>
        \A i \in 1..Len(limiter.sent) :
            Cardinality(SentInWindow(i)) <= RateLimits[limiter.provider].RATE_LIMIT

(***************************************************************************)
(* Specification of the position reconciliation of one user.               *)
(***************************************************************************)
RecNext ==
    \/ SyncPositions
    \/ ReconcilePositions

SpecRec == RecInit /\ [][RecNext]_vars

\* C27: after the reconciliation of a user ended without error, for every
\* ticker the open local quantity equals the broker's quantity, and there
\* is no open local position for a ticker the broker does not hold
C27_ReconciledMatchesBroker ==
    rec.pc = "reconciled" =>
        \A symbol \in Symbols :
            /\ OpenQuantity(rec.rows, symbol) = rec.broker[symbol]
            /\ rec.broker[symbol] = 0 => OpenRowsOf(rec.rows, symbol) = {}

(***************************************************************************)
(* Specification of the error policy.                                      *)
(***************************************************************************)
ErrsNext ==
    \/ SubmitPlanOrder
    \/ StartWaitForFills
    \/ PollPlanOrder
    \/ ReturnTrades
    \/ TradesRaise
    \/ AskShouldLiquidate
    \/ HandleInsufficientFundsFailure

SpecErrs == ErrsInit /\ [][ErrsNext]_vars

\* C28: when the execution of a symphony's plan has returned without any
\* other failure, the symphony was liquidated exactly when at least three
\* of its orders were rejected
C28_LiquidatedIffThreeRejections ==
    (errs.pc = "returned" /\ ~errs.raised)
        => (errs.liquidated <=> Cardinality(RejectedOrders(errs.orders)) >= 3)

\* C29: insufficient funds never lead to liquidation: the policy answers
\* no for this error type, and the handler scales the plan down, queues
\* the run again, liquidates nothing and leaves the symphony active
C29_InsufficientFundsNoLiquidation ==
    /\ (errs.verdict.asked /\ errs.verdict.error_type = "insufficient_funds")
          => ~errs.verdict.liquidate
    /\ errs.handled
          => (errs.retries > 0 /\ errs.is_active /\ (errs.liquidated => errs.raised))

(***************************************************************************)
(* Specification of the symphony after an evaluation error.                *)
(***************************************************************************)
ReviewNext ==
    \/ ScheduledExecution
    \/ RetryExecution
    \/ ReviewHandleAlgorithmFailure
    \/ ReviewValidateAllSymphonies
    \/ ReviewHandleExecutionFailures
    \/ FailuresAgeOut
    \/ UserReview

SpecReview == ReviewInit /\ [][ReviewNext]_vars

\* C30: a symphony that failed with an evaluation error and has not been
\* reviewed since is inactive once the failure handler has run, and is not
\* executed again
C30_FailedStaysOffUntilReviewed ==
    review.failed =>
        /\ ~review.executed_again
        /\ ~review.handler_queued => ~review.symphony.is_active

(***************************************************************************)
(* Specification of the recovery from market data failures.                *)
(***************************************************************************)
RecovNext ==
    \/ RecovRunFails
    \/ RecovRetrySucceeds
    \/ CheckFailedExecutions
    \/ RecovTick

SpecRecov == RecovInit /\ [][RecovNext]_vars

\* C31: a run that failed for want of market data is dispatched again at
\* most once, however many recovery checks run
C31_RetriedAtMostOnce ==
    recov.pc = "running" =>
        \A i \in 1..Len(recov.records) : recov.records[i].retried <= 1

(***************************************************************************)
(* Specification of the batch order of the scheduler.                      *)
(***************************************************************************)
BatchingNext ==
    \/ BatchingQuery
    \/ BatchingEligibility
    \/ BatchingDispatch

SpecBatching == BatchingInit /\ [][BatchingNext]_vars

\* C32: a symphony is never in a later batch than a symphony with a
\* larger id
C32_BatchesInIdOrder ==
    \A i, j \in 1..Len(batching.dispatched) :
        i < j =>
            \A b \in 1..Len(batching.dispatched[i]),
               a \in 1..Len(batching.dispatched[j]) :
                batching.dispatched[i][b] < batching.dispatched[j][a]

(***************************************************************************)
(* Specification of the ranking step.                                      *)
(***************************************************************************)
SpecRanking == RankingInit /\ [][RankingRun]_vars

\* x ranks before y when ties are broken by ascending ticker
RanksBefore(x, y, direction) ==
    \/ SortsBefore(x, y, direction)
    \/ x.score = y.score /\ TickerOrder[x.symbol] < TickerOrder[y.symbol]

\* C33: the assets a ranking step retains are the first `limit` in the
\* order of the scores with ties broken by ascending ticker, whatever the
\* order in which the assets were supplied
C33_TiesBrokenByTicker ==
    ranking.pc = "ranked" =>
        LET all == {ranking.asset_data_map[i] : i \in DOMAIN ranking.asset_data_map}
            kept == {ranking.ranked_assets[i] : i \in DOMAIN ranking.ranked_assets}
        IN \A x \in kept, y \in all \ kept : RanksBefore(x, y, ranking.step.direction)

(***************************************************************************)
(* Specification of the planning of one evaluation.                        *)
(***************************************************************************)
PlannerNext ==
    \/ PlannerPlan
    \/ PlannerSubmit

SpecPlanner == PlannerInit /\ [][PlannerNext]_vars

\* the target weight of a symbol, 0 when the allocations do not name it
TargetWeight(tgt, sym) ==
    SumSeq([i \in DOMAIN tgt |-> IF tgt[i].symbol = sym THEN tgt[i].pct ELSE 0])

\* every symbol's target value is less than the minimum order away from
\* the value held
WithinTolerance(equity, cur, tgt) ==
    \A sym \in Symbols :
        Abs(equity * TargetWeight(tgt, sym) - CurrentValue(cur, sym) * AllocScale)
            < MinOrderDollars * AllocScale

\* C34: when the target weights equal the current weights within the
\* tolerance of the 10-dollar minimum order, the plan has no order (stated
\* for allocations without a cash entry)
C34_EqualWeightsEmptyPlan ==
    (/\ planner.pc = "submitting"
     /\ TargetWeight(planner.target_allocations, "CASH") = 0
     /\ WithinTolerance(planner.total_equity, planner.current_positions,
                        planner.target_allocations))
        => planner.orders = << >>

\* C37: no order for the cash entry of the allocations is planned or
\* submitted
C37_NoOrderForCash ==
    /\ \A i \in DOMAIN planner.orders : planner.orders[i].symbol # "CASH"
    /\ \A i \in DOMAIN planner.submitted : planner.submitted[i].symbol # "CASH"

(***************************************************************************)
(* Specification of the validation of a Filter step.                       *)
(***************************************************************************)
SpecFilter == FilterInit /\ [][FilterValidate]_vars

\* C35: a Filter step passes validation exactly when its n is 'all' or an
\* integer from 0 to the number of its children
C35_FilterNValid ==
    filter.pc = "validated" =>
        (~filter.outcome.raised <=>
            \/ filter.select_n.kind = "all"
            \/ /\ filter.select_n.kind \in {"int", "digits"}
               /\ 0 <= filter.select_n.n
               /\ filter.select_n.n <= filter.children)

(***************************************************************************)
(* Specification of the symphony parser.                                   *)
(***************************************************************************)
SpecParser == ParserInit /\ [][ParserNext]_vars

\* C36: for every JSON input that parses, parsing the output of to_json
\* succeeds and yields the step that the input parsed to
C36_ParseSerialiseRoundTrip ==
    parser.pc = "reparsed" =>
        /\ parser.again.ok
        /\ parser.again = parser.symphony

(***************************************************************************)
(* Specification of one order, its polling and the reconciliation.         *)
(***************************************************************************)
SpecFills == FillsInit /\ [][FillsNext]_vars

\* C38: once the polling loop has seen the order filled, the user's rows
\* for the symbol hold the quantity held before plus the filled quantity,
\* counted once, whatever polls and reconciliation passes have run
C38_FillAppliedOnce ==
    fills.trade = "executed" =>
        LocalQuantity(fills.rows, "AAA") = fills.before + FillQty

\* C15: at most one run of a given symphony is in progress at any time
C15_OneRunPerSymphony ==
    \A s \in Syms :
        Cardinality({o \in Origins : runs[<<o, s>>] \in InProgress}) <= 1

(***************************************************************************)
(* Properties of the trade service (SpecTrade).                            *)
(***************************************************************************)
\* C1: the buys of every order plan cost, at the prices the plan assumes,
\* no more than the buying power of the account snapshot it was built from
C1_PlanWithinBuyingPower ==
    pc # "trade_start" => BuyValue(plan) <= account.buying_power

\* C2: within one plan execution no buy is submitted before every sell of
\* the plan has been submitted
C2_SellsBeforeBuys ==
    \A i \in DOMAIN plan, j \in DOMAIN plan :
        (i < idx /\ IsBuy(plan[i]) /\ IsSell(plan[j])) => j < i

\* C7: when a symphony is liquidated, none of its rebalancing orders is
\* still in flight at the moment a liquidating order is submitted
C7_CancelBeforeLiquidation ==
    \A i \in DOMAIN brokerOrders :
        brokerOrders[i].kind = "liquidation" =>
           {j \in brokerOrders[i].inflight : brokerOrders[j].kind = "rebalance"} = {}

\* C12: every order the broker holds has a local trade record that carries
\* its order id, and the record is pending as long as the order is open
C12_EveryOrderHasRecord ==
    \A i \in DOMAIN brokerOrders :
        \E t \in DOMAIN trades :
            /\ trades[t].order = i
            /\ brokerOrders[i].status \in OpenStatuses =>
                  trades[t].status = "pending"

\* C14: when the polling deadline has elapsed, a trade whose order is only
\* partly filled is recorded with status partial
C14_PartialRecordedAtDeadline ==
    (polls >= MaxPolls /\ ~Waiting) =>
        \A t \in waitSet :
            brokerOrders[trades[t].order].status = "partially_filled" =>
               trades[t].status = "partial"

(***************************************************************************)
(* Properties of the trade service under the wall clock (SpecWindow).      *)
(***************************************************************************)
\* the executor stops submitting 30 seconds before the window ends
SubmitCutoffSeconds == 30

\* C40: the polling loop always ends; it goes into another iteration only
\* when the broker has just reported a tracked order as not terminal, and
\* it never runs more iterations than fit before its deadline
C40_PollingTerminates ==
    /\ Waiting ~> ~Waiting
    /\ [](Waiting => polls <= MaxPolls)
    /\ [][(Waiting /\ polls' = polls + 1) =>
             \E t \in Polled :
                brokerOrders'[trades[t].order].status \in OpenStatuses]_vars

\* the loop ran into its deadline with an order that is still open
C40_Witness ==
    /\ pc = "done"
    /\ polls = MaxPolls
    /\ \E t \in waitSet : brokerOrders[trades[t].order].status \in OpenStatuses

\* C11: no order of a symphony's plan is submitted at or after the end of
\* the window minus 30 seconds (the clock counts minutes)
C11_NoSubmitAfterCutoff ==
    \A i \in DOMAIN brokerOrders :
        brokerOrders[i].kind = "rebalance" =>
           brokerOrders[i].at * 60 < Deadline * 60 - SubmitCutoffSeconds

\* C13: before the window deadline, once a call has submitted its orders,
\* every order that is still open is polled by exactly one polling loop
C13_ExactlyOnePoller ==
    (now < Deadline /\ pc \notin {"trade_submit", "liq_submit"}) =>
        \A i \in DOMAIN brokerOrders :
            brokerOrders[i].status \in OpenStatuses =>
               /\ Waiting
               /\ Cardinality({t \in waitSet : trades[t].order = i}) = 1

(***************************************************************************)
(* Properties of the per-symphony task (Spec).                             *)
(***************************************************************************)
\* C3: when the evaluation records an error it returns no target weights,
\* the planner is not called and no rebalancing order is submitted or
\* recorded in that run
C3_ErrorsGiveNoTargetsNoOrders ==
    evalResult.errors # << >> =>
        /\ evalResult.target_allocations = << >>
        /\ plannerCalls = 0
        /\ plan = << >>
        /\ \A i \in DOMAIN brokerOrders : brokerOrders[i].kind # "rebalance"
        /\ \A t \in DOMAIN trades : trades[t].kind # "rebalance"

\* the run ended after an evaluation error and its failure handler returned
C3_Witness == evalResult.errors # << >> /\ TaskOver

\* C39: a run reports success and writes last_executed_at only if its
\* trade execution did not fail
C39_SuccessOnlyIfTradesExecuted ==
    (taskResult.success \/ lastExecuted) =>
        \A i \in DOMAIN taskResult.errors :
            taskResult.errors[i] # "Trade execution error"

\* C4: when the rebalance decision is "do not rebalance" the planner is
\* not called, no order is submitted and no trade is recorded
C4_NoRebalanceNoOrders ==
    decision = "no" =>
        /\ plannerCalls = 0
        /\ brokerOrders = << >>
        /\ trades = << >>

\* C6: when a run ended in an evaluation error and its failure handler has
\* returned, every position of the symphony is at quantity 0 or has a
\* liquidating order recorded as partial
C6_LiquidationCompletes ==
    (TaskOver /\ evalResult.errors # << >>) =>
        \A sym \in Symbols :
            \/ positions[<<runSym, sym>>] = 0
            \/ \E t \in DOMAIN trades :
                  /\ trades[t].kind = "liquidation"
                  /\ trades[t].symphony = runSym
                  /\ trades[t].symbol = sym
                  /\ trades[t].status = "partial"

\* C8: liquidating a symphony records closing orders only for positions of
\* that symphony
C8_LiquidationScoped ==
    \A t \in DOMAIN trades :
        trades[t].kind = "liquidation" => trades[t].symphony = runSym

C5_FailureDoesNotBlockOthers ==
    (pc \in {"sched_done", "sched_raised"} /\ ~sched.exceeded) =>
        SeqToSet(sched.eligible) \subseteq Dispatched

=============================================================================
